---- MODULE Spec2Model ----
(***************************************************************************)
(* A model of EchoMobileSession (src/echo_mobile_session/                  *)
(* echo_mobile_session.py): one session object, one caller, and the Echo   *)
(* Mobile server as an environment that answers each request with any      *)
(* response of the documented shape.  One step of the model is one HTTP    *)
(* exchange together with the client code that runs until the next request *)
(* is issued or the call returns or raises.                                *)
(***************************************************************************)
EXTENDS Integers, Sequences, FiniteSets, TLC

VARIABLES
    login_data,        \* EchoMobileSession.login_data
    background_tasks,  \* EchoMobileSession.background_tasks
    op,                \* the public method the caller invoked last
    pc,                \* the method whose request is issued next, or "idle"
    arg,               \* arguments and locals of the call in progress
    report_key,        \* local report_key of generate_* / await_report_generated
    report_status,     \* local report_status of await_report_generated
    todo,              \* keys of list(self.background_tasks) not yet visited
    result,            \* outcome of the last call: exception name and value
    trace,             \* requests issued by the call in progress, with responses
    issued,            \* number of report keys the server has handed out
    logins,            \* responses of the last two successful logins, oldest first
    events,            \* sleeps and polls of the call in progress, in order
    script,            \* the command-line script that drives the session, if any
    callers,           \* further threads that call into the session, if any
    legacy             \* a session of the older module src/echo_mobile_session.py

vars == <<login_data, background_tasks, op, pc, arg, report_key, report_status,
          todo, result, trace, issued, logins, events, script, callers, legacy>>

-----------------------------------------------------------------------------
(* Bounds of the model.                                                    *)

MaxReports == 3
MaxPolls == 2
MaxListing == 2
MaxRows == 2

-----------------------------------------------------------------------------
(* Values.                                                                 *)

None == <<>>
NoArg == ""

SearchReport == 11

\* Mutant: the group inbox report is requested with the global inbox's code.
InboxReport_as_search == SearchReport

InboxReport == 10
SurveyReport == 13
AllMessagesReport == 17
CSV == 1

Generating == 1
Complete == 3

Names == {"A", "B"}
Keys == {"k1", "k2"}

RKey(i) == "r" \o ToString(i)
RKeys == {RKey(i) : i \in 1..MaxReports}

TaskId(rkey) == "report_" \o rkey

Last(s) == s[Len(s)]

RECURSIVE SelectSeqBy(_, _, _)
SelectSeqBy(s, field, value) ==
    IF s = <<>> THEN <<>>
    ELSE (IF Head(s)[field] = value THEN <<Head(s)>> ELSE <<>>)
         \o SelectSeqBy(Tail(s), field, value)

RECURSIVE MapField(_, _)
MapField(s, field) ==
    IF s = <<>> THEN <<>> ELSE <<Head(s)[field]>> \o MapField(Tail(s), field)

\* Mutant: the snapshot may list a key more than once.
Orderings_with_repeats(S) == [1..Cardinality(S) -> S]

Orderings(S) == {s \in [1..Cardinality(S) -> S] : \A x \in S : \E i \in DOMAIN s : s[i] = x}

-----------------------------------------------------------------------------
(* The server: the responses each endpoint can give.                       *)

ErrorResponses == {[success |-> FALSE, message |-> "server error"]}

LoginResponses ==
    {[success |-> TRUE, tz |-> "Africa/Nairobi", enterprise |-> [key |-> "e1"]],
     [success |-> TRUE, tz |-> "UTC", enterprise |-> [key |-> "e2"]],
     [success |-> FALSE, message |-> "Invalid credentials"]}

SeqsUpTo(S, n) == UNION {[1..m -> S] : m \in 0..n}

AccountEntries == {[ent_name |-> "A", key |-> "k1"], [ent_name |-> "A", key |-> "k2"],
                   [ent_name |-> "B", key |-> "k2"]}
Entries == {[name |-> "A", key |-> "k1"], [name |-> "A", key |-> "k2"],
            [name |-> "B", key |-> "k2"]}

AccountsResponses ==
    ErrorResponses \cup {[success |-> TRUE, linked |-> l] : l \in SeqsUpTo(AccountEntries, MaxListing)}
GroupsResponses ==
    ErrorResponses \cup {[success |-> TRUE, groups |-> l] : l \in SeqsUpTo(Entries, MaxListing)}
SurveysResponses ==
    ErrorResponses \cup {[success |-> TRUE, surveys |-> l] : l \in SeqsUpTo(Entries, MaxListing)}

LinkedResponses == ErrorResponses \cup {[success |-> TRUE]}
CancelResponses == ErrorResponses \cup {[success |-> TRUE]}

GenerateResponses ==
    ErrorResponses \cup
    (IF issued < MaxReports THEN {[success |-> TRUE, rkey |-> RKey(issued + 1)]} ELSE {})

\* A task entry: status 1 is generating, 3 is complete, anything else is
\* unknown; progress and total are read for the progress log only.
TaskStates == {[status |-> 1, progress |-> 0, total |-> 0],
               [status |-> 1, progress |-> 1, total |-> 2],
               [status |-> 2, progress |-> 1, total |-> 2],
               [status |-> 3, progress |-> 2, total |-> 2]}

PollCount == Cardinality({i \in DOMAIN trace : trace[i].req = "GET cms/backgroundtask"})

\* The responses to a poll: the task map holds an entry for the polled
\* report, in one of the given states, or it does not.
TaskResponses(states) ==
    ErrorResponses \cup
    {[success |-> TRUE, tasks |-> t] :
        t \in {<<>>} \cup
              {[k \in {TaskId(report_key)} |-> s] : s \in states} \cup
              {[k \in {TaskId("other")} |-> s] : s \in {x \in TaskStates : x.status = Complete}}}

\* A task is reported as still generating only while the poll bound allows
\* another poll.
BackgroundTaskResponses ==
    TaskResponses({x \in TaskStates : x.status = Generating => PollCount + 1 < MaxPolls})

ServeBodies == {"Phone,Date,Message"}

-----------------------------------------------------------------------------
(* Bookkeeping of a step.                                                  *)

NoResult == [exc |-> "running", val |-> NoArg]

Sent(req, params, response) ==
    trace' = Append(trace, [req |-> req, params |-> params, response |-> response])

Finish(exc, val) ==
    /\ pc' = "idle"
    /\ result' = [exc |-> exc, val |-> val]

Goto(next) ==
    /\ pc' = next
    /\ UNCHANGED result

-----------------------------------------------------------------------------
(* Name resolution: the part of the *_key_for_name methods that follows    *)
(* the listing request.  The value is what the method raises or returns.   *)

\* Mutant: the switch is made with the key of the first account listed,
\* whatever its name.
account_key_for_name_first_listed(listing, account_name) ==
    IF Len(listing) = 0
    THEN [exc |-> "KeyError",
          val |-> <<"Account with account_name '", account_name, "' not found">>]
    ELSE [exc |-> "", val |-> listing[1].key]

account_key_for_name(listing, account_name) ==
    LET matching_accounts == SelectSeqBy(listing, "ent_name", account_name)
    IN  IF Len(matching_accounts) = 0
        THEN [exc |-> "KeyError",
              val |-> <<"Account with account_name '", account_name, "' not found">>]
        ELSE [exc |-> "", val |-> matching_accounts[1].key]

\* Mutant: a name that was found once keeps the key k1 it had then,
\* whatever the listing says now.
group_key_for_name_remembered(listing, group_name) ==
    LET matching_groups == SelectSeqBy(listing, "name", group_name)
    IN  IF Len(matching_groups) = 0
        THEN [exc |-> "KeyError",
              val |-> <<"Requested group not found on Echo Mobile (Available groups: ">>
                      \o MapField(listing, "name") \o <<")">>]
        ELSE IF Len(matching_groups) # 1
        THEN [exc |-> "AssertionError", val |-> <<"Multiple surveys with name ", group_name>>]
        ELSE [exc |-> "", val |-> "k1"]

group_key_for_name(listing, group_name) ==
    LET matching_groups == SelectSeqBy(listing, "name", group_name)
    IN  IF Len(matching_groups) = 0
        THEN [exc |-> "KeyError",
              val |-> <<"Requested group not found on Echo Mobile (Available groups: ">>
                      \o MapField(listing, "name") \o <<")">>]
        ELSE IF Len(matching_groups) # 1
        THEN [exc |-> "AssertionError", val |-> <<"Multiple surveys with name ", group_name>>]
        ELSE [exc |-> "", val |-> matching_groups[1].key]

\* Mutant: a name without a match yields no key instead of raising.
survey_key_for_name_no_raise(listing, survey_name) ==
    LET matching_surveys == SelectSeqBy(listing, "name", survey_name)
    IN  IF Len(matching_surveys) = 0
        THEN [exc |-> "", val |-> NoArg]
        ELSE IF Len(matching_surveys) # 1
        THEN [exc |-> "AssertionError", val |-> <<"Multiple surveys with name ", survey_name>>]
        ELSE [exc |-> "", val |-> matching_surveys[1].key]

survey_key_for_name(listing, survey_name) ==
    LET matching_surveys == SelectSeqBy(listing, "name", survey_name)
    IN  IF Len(matching_surveys) = 0
        THEN [exc |-> "KeyError",
              val |-> <<"Requested survey not found on Echo Mobile (Available surveys: ">>
                      \o MapField(listing, "name") \o <<")">>]
        ELSE IF Len(matching_surveys) # 1
        THEN [exc |-> "AssertionError", val |-> <<"Multiple surveys with name ", survey_name>>]
        ELSE [exc |-> "", val |-> matching_surveys[1].key]

-----------------------------------------------------------------------------
(* The public methods and the request each of them issues first.           *)

ListingOps == {"accounts", "groups", "surveys"}
ResolveOps == {"account_key_for_name", "group_key_for_name", "survey_key_for_name"}
GenerateOps == {"generate_survey_report", "generate_inbox_report", "generate_messages_report"}
CompositeOps == {"survey_report_for_key", "survey_report_for_name", "messages_report",
                 "global_inbox_report", "group_inbox_report_for_key",
                 "group_inbox_report_for_name", "inbox_report"}
Ops == ListingOps \cup ResolveOps \cup GenerateOps \cup CompositeOps \cup
       {"login", "use_account_with_key", "use_account_with_name", "await_report_generated",
        "download_report", "delete_background_task", "delete_session_background_tasks"}

\* The argument records a caller can pass to each method: name is the
\* account, group or survey name (NoArg for Python's None or no such
\* parameter), key the account, group, survey, report or task key, and wait
\* the value of wait_until_generated.
Args(o) ==
    CASE o \in {"account_key_for_name", "group_key_for_name", "survey_key_for_name",
                "use_account_with_name", "survey_report_for_name",
                "group_inbox_report_for_name"} ->
            {[name |-> n, key |-> NoArg, wait |-> TRUE] : n \in Names}
      [] o = "inbox_report" ->
            {[name |-> n, key |-> NoArg, wait |-> TRUE] : n \in Names \cup {NoArg}}
      [] o \in {"use_account_with_key", "survey_report_for_key", "group_inbox_report_for_key"} ->
            {[name |-> NoArg, key |-> k, wait |-> TRUE] : k \in Keys}
      [] o = "generate_survey_report" ->
            {[name |-> NoArg, key |-> k, wait |-> w] : k \in Keys, w \in BOOLEAN}
      [] o = "generate_inbox_report" ->
            {[name |-> NoArg, key |-> k, wait |-> w] : k \in Keys \cup {NoArg}, w \in BOOLEAN}
      [] o = "generate_messages_report" ->
            {[name |-> NoArg, key |-> NoArg, wait |-> w] : w \in BOOLEAN}
      [] o \in {"await_report_generated", "download_report"} ->
            {[name |-> NoArg, key |-> k, wait |-> TRUE] : k \in RKeys}
      [] o = "delete_background_task" ->
            {[name |-> NoArg, key |-> TaskId(k), wait |-> TRUE] : k \in RKeys}
      [] OTHER -> {[name |-> NoArg, key |-> NoArg, wait |-> TRUE]}

Entry(o, a) ==
    CASE o = "login" -> "login"
      [] o \in {"accounts", "account_key_for_name", "use_account_with_name"} -> "accounts"
      [] o = "use_account_with_key" -> "use_account_with_key"
      [] o \in {"groups", "group_key_for_name", "group_inbox_report_for_name"} -> "groups"
      [] o = "inbox_report" -> IF a.name = NoArg THEN "generate_inbox_report" ELSE "groups"
      [] o \in {"surveys", "survey_key_for_name", "survey_report_for_name"} -> "surveys"
      [] o \in {"generate_survey_report", "survey_report_for_key"} -> "generate_survey_report"
      [] o \in {"generate_inbox_report", "global_inbox_report", "group_inbox_report_for_key"} ->
            "generate_inbox_report"
      [] o \in {"generate_messages_report", "messages_report"} -> "generate_messages_report"
      [] o = "await_report_generated" -> "await_report_generated"
      [] o = "download_report" -> "download_report"
      [] o \in {"delete_background_task", "delete_session_background_tasks"} ->
            "delete_background_task"

-----------------------------------------------------------------------------
\* No script: the caller uses the session directly.
NoScript == [name |-> "", at |-> "", pending |-> ""]

\* The session as its constructor leaves it, and a caller that has called
\* nothing yet; beside it a session of the older module as its constructor
\* leaves it, with its set of background tasks and no login data, and the
\* control state of its calls.
Constructed ==
    /\ login_data = None
    /\ background_tasks = {}
    /\ op = "__init__"
    /\ pc = "idle"
    /\ arg = [name |-> NoArg, key |-> NoArg, wait |-> TRUE]
    /\ report_key = NoArg
    /\ report_status = Generating
    /\ todo = <<>>
    /\ result = [exc |-> "", val |-> NoArg]
    /\ trace = <<>>
    /\ issued = 0
    /\ logins = <<>>
    /\ events = <<>>
    /\ legacy = [background_tasks |-> {}, pc |-> "idle",
                 arg |-> [name |-> NoArg, key |-> NoArg, wait |-> TRUE],
                 report_key |-> NoArg, report_status |-> Generating, todo |-> <<>>,
                 result |-> [exc |-> "", val |-> NoArg], trace |-> <<>>]

Init ==
    /\ Constructed
    /\ script = NoScript
    /\ callers = <<>>

\* The entry into public method o with arguments a: the locals of the call
\* are fresh, and delete_session_background_tasks takes its snapshot
\* list(self.background_tasks), in any order, and returns at once when the
\* snapshot is empty.
Invoke(o, a) ==
    /\ op' = o
    /\ arg' = a
    /\ trace' = <<>>
    /\ events' = <<>>
    /\ report_key' = (IF o \in {"await_report_generated", "download_report"} THEN a.key ELSE NoArg)
    /\ report_status' = Generating
    /\ IF o = "delete_session_background_tasks"
       THEN \E snapshot \in Orderings(background_tasks) :
               /\ todo' = snapshot
               /\ IF snapshot = <<>> THEN Finish("", NoArg)
                  ELSE pc' = Entry(o, a) /\ result' = NoResult
       ELSE /\ todo' = <<>>
            /\ pc' = Entry(o, a)
            /\ result' = NoResult

\* The caller invokes a public method of the idle session.
Call ==
    /\ pc = "idle"
    /\ \E o \in Ops : \E a \in Args(o) : Invoke(o, a)
    /\ UNCHANGED <<login_data, background_tasks, issued, logins, script, callers, legacy>>

\* The history of successful logins keeps the latest two.
Recent(s) == IF Len(s) > 2 THEN Tail(s) ELSE s

\* Mutant: only the first successful login is recorded.
LoginDataAfter_set_once(old, response) ==
    IF response.success /\ old = None THEN response ELSE old

\* Mutant: the response is stored before the success check.
LoginDataAfter_unchecked(old, response) == response

\* self.login_data once login has handled the response: the assignment is
\* reached only when the success check has not raised.
LoginDataAfter(old, response) == IF response.success THEN response ELSE old

login ==
    /\ pc = "login"
    /\ \E response \in LoginResponses :
        /\ Sent("POST authenticate/simple", [populate_session |-> 1], response)
        /\ login_data' = LoginDataAfter(login_data, response)
        /\ IF ~response.success
           THEN /\ Finish("EchoMobileError", response.message)
                /\ UNCHANGED logins
           ELSE /\ logins' = Recent(Append(logins, response))
                /\ Finish("", NoArg)
    /\ UNCHANGED <<background_tasks, op, arg, report_key, report_status, todo, issued,
                   events, script, callers, legacy>>

accounts ==
    /\ pc = "accounts"
    /\ \E response \in AccountsResponses :
        /\ Sent("GET cms/account/me", [with_linked |-> 1], response)
        /\ IF ~response.success
           THEN Finish("EchoMobileError", response.message) /\ UNCHANGED arg
           ELSE IF op = "accounts"
           THEN Finish("", response.linked) /\ UNCHANGED arg
           ELSE LET r == account_key_for_name(response.linked, arg.name)
                IN  IF r.exc # "" \/ op = "account_key_for_name"
                    THEN Finish(r.exc, r.val) /\ UNCHANGED arg
                    ELSE Goto("use_account_with_key") /\ arg' = [arg EXCEPT !.key = r.val]
    /\ UNCHANGED <<login_data, background_tasks, op, report_key, report_status, todo,
                   issued, logins,
                   events, script, callers, legacy>>

\* Mutant: the success flag of the switch response is not looked at.
use_account_with_key_unchecked ==
    /\ pc = "use_account_with_key"
    /\ \E response \in LinkedResponses :
        /\ Sent("POST authenticate/linked", [acckey |-> arg.key], response)
        /\ Finish("", NoArg)
    /\ UNCHANGED <<login_data, background_tasks, op, arg, report_key, report_status, todo,
                   issued, logins,
                   events, script, callers, legacy>>

use_account_with_key ==
    /\ pc = "use_account_with_key"
    /\ \E response \in LinkedResponses :
        /\ Sent("POST authenticate/linked", [acckey |-> arg.key], response)
        /\ IF ~response.success
           THEN Finish("EchoMobileError", response.message)
           ELSE Finish("", NoArg)
    /\ UNCHANGED <<login_data, background_tasks, op, arg, report_key, report_status, todo,
                   issued, logins,
                   events, script, callers, legacy>>

groups ==
    /\ pc = "groups"
    /\ \E response \in GroupsResponses :
        /\ Sent("GET cms/group", None, response)
        /\ IF ~response.success
           THEN Finish("EchoMobileError", response.message) /\ UNCHANGED arg
           ELSE IF op = "groups"
           THEN Finish("", response.groups) /\ UNCHANGED arg
           ELSE LET r == group_key_for_name(response.groups, arg.name)
                IN  IF r.exc # "" \/ op = "group_key_for_name"
                    THEN Finish(r.exc, r.val) /\ UNCHANGED arg
                    ELSE Goto("generate_inbox_report") /\ arg' = [arg EXCEPT !.key = r.val]
    /\ UNCHANGED <<login_data, background_tasks, op, report_key, report_status, todo,
                   issued, logins,
                   events, script, callers, legacy>>

surveys ==
    /\ pc = "surveys"
    /\ \E response \in SurveysResponses :
        /\ Sent("GET cms/survey", None, response)
        /\ IF ~response.success
           THEN Finish("EchoMobileError", response.message) /\ UNCHANGED arg
           ELSE IF op = "surveys"
           THEN Finish("", response.surveys) /\ UNCHANGED arg
           ELSE LET r == survey_key_for_name(response.surveys, arg.name)
                IN  IF r.exc # "" \/ op = "survey_key_for_name"
                    THEN Finish(r.exc, r.val) /\ UNCHANGED arg
                    ELSE Goto("generate_survey_report") /\ arg' = [arg EXCEPT !.key = r.val]
    /\ UNCHANGED <<login_data, background_tasks, op, report_key, report_status, todo,
                   issued, logins,
                   events, script, callers, legacy>>

\* Mutant: the key is registered only after the wait, so a call that waits
\* polls with the key still unregistered.
add_background_task_after_wait(tasks, rkey) ==
    IF arg.wait THEN tasks ELSE tasks \cup {TaskId(rkey)}

\* Mutant: the report key is registered without the "report_" prefix.
add_background_task_no_prefix(tasks, rkey) == tasks \cup {rkey}

\* Mutant: the set holds the latest task only.
add_background_task_latest_only(tasks, rkey) == {TaskId(rkey)}

\* self.background_tasks.add("report_" + report_key)
add_background_task(tasks, rkey) == tasks \cup {TaskId(rkey)}

\* Mutant: the wait is skipped whatever wait_until_generated says.
AfterGenerate_no_wait(wait_until_generated) == "return"

\* Mutant: the wait is made whatever wait_until_generated says.
AfterGenerate_always_wait(wait_until_generated) == "await_report_generated"

\* if wait_until_generated: self.await_report_generated(report_key)
AfterGenerate(wait_until_generated) ==
    IF wait_until_generated THEN "await_report_generated" ELSE "return"

\* What follows a successful generation response in each generate_* method;
\* a composite method passes the returned key on to download_report.
Generated(rkey) ==
    /\ report_key' = rkey
    /\ issued' = issued + 1
    /\ background_tasks' = add_background_task(background_tasks, rkey)
    /\ IF AfterGenerate(arg.wait) = "await_report_generated"
       THEN Goto("await_report_generated")
       ELSE IF op \in CompositeOps THEN Goto("download_report")
       ELSE Finish("", rkey)

generate_messages_report ==
    /\ pc = "generate_messages_report"
    /\ IF login_data = None
       THEN /\ Finish("TypeError", "'NoneType' object is not subscriptable")
            /\ UNCHANGED <<background_tasks, report_key, issued, trace>>
       ELSE \E response \in GenerateResponses :
            /\ Sent("POST cms/report/generate",
                    [type |-> AllMessagesReport, ftype |-> CSV,
                     target |-> login_data.enterprise.key], response)
            /\ IF ~response.success
               THEN /\ Finish("EchoMobileError", response.message)
                    /\ UNCHANGED <<background_tasks, report_key, issued>>
               ELSE Generated(response.rkey)
    /\ UNCHANGED <<login_data, op, arg, report_status, todo, logins,
                   events, script, callers, legacy>>

generate_inbox_report ==
    /\ pc = "generate_inbox_report"
    /\ \E response \in GenerateResponses :
        /\ IF arg.key = NoArg
           THEN Sent("POST cms/report/generate",
                     [type |-> SearchReport, ftype |-> CSV], response)
           ELSE Sent("POST cms/report/generate",
                     [type |-> InboxReport, ftype |-> CSV, target |-> arg.key], response)
        /\ IF ~response.success
           THEN /\ Finish("EchoMobileError", response.message)
                /\ UNCHANGED <<background_tasks, report_key, issued>>
           ELSE Generated(response.rkey)
    /\ UNCHANGED <<login_data, op, arg, report_status, todo, logins,
                   events, script, callers, legacy>>

generate_survey_report ==
    /\ pc = "generate_survey_report"
    /\ \E response \in GenerateResponses :
        /\ Sent("POST cms/report/generate",
                [type |-> SurveyReport, ftype |-> CSV, target |-> arg.key], response)
        /\ IF ~response.success
           THEN /\ Finish("EchoMobileError", response.message)
                /\ UNCHANGED <<background_tasks, report_key, issued>>
           ELSE Generated(response.rkey)
    /\ UNCHANGED <<login_data, op, arg, report_status, todo, logins,
                   events, script, callers, legacy>>

\* Mutant: the final assertion is missing, any status other than 1 returns.
StatusOutcome_no_assert(status) ==
    IF status = Generating THEN "poll" ELSE "return"

\* The loop condition and the final assertion of await_report_generated:
\* what the method does once a poll has read the task's status.
StatusOutcome(status) ==
    IF status = Generating THEN "poll"
    ELSE IF status = Complete THEN "return"
    ELSE "AssertionError"

\* Mutant: the loop polls first and sleeps afterwards.
PollEvents_poll_first == <<"poll", "sleep">>

\* One iteration of the loop: time.sleep(poll_interval), then the GET.
PollEvents == <<"sleep", "poll">>

\* Mutant: the loop gives up when a second poll finds the task generating.
PollOutcome_two_polls(response, rkey) ==
    IF ~response.success THEN "EchoMobileError"
    ELSE IF TaskId(rkey) \notin DOMAIN response.tasks THEN "KeyError"
    ELSE IF response.tasks[TaskId(rkey)].status = Generating /\ events # <<>>
    THEN "AssertionError"
    ELSE StatusOutcome(response.tasks[TaskId(rkey)].status)

\* Mutant: a task map without the entry is taken as still generating.
PollOutcome_missing_polls(response, rkey) ==
    IF ~response.success THEN "EchoMobileError"
    ELSE IF TaskId(rkey) \notin DOMAIN response.tasks THEN "poll"
    ELSE StatusOutcome(response.tasks[TaskId(rkey)].status)

\* What one iteration does with the response of its poll: the success
\* check raises, the lookup of the task raises, or the status decides.
PollOutcome(response, rkey) ==
    IF ~response.success THEN "EchoMobileError"
    ELSE IF TaskId(rkey) \notin DOMAIN response.tasks THEN "KeyError"
    ELSE StatusOutcome(response.tasks[TaskId(rkey)].status)

\* One iteration of the polling loop, and the code after the loop when the
\* iteration is the last one.  The server answers with one of responses;
\* the logs of the call are continued from kept_trace and kept_events.
AwaitStep(responses, kept_trace, kept_events) ==
    /\ pc = "await_report_generated"
    /\ report_status = Generating
    /\ \E response \in responses :
        LET outcome == PollOutcome(response, report_key)
        IN  /\ trace' = Append(kept_trace, [req |-> "GET cms/backgroundtask",
                                            params |-> None, response |-> response])
            /\ events' = kept_events \o PollEvents
            /\ report_status' =
                   IF response.success /\ TaskId(report_key) \in DOMAIN response.tasks
                   THEN response.tasks[TaskId(report_key)].status
                   ELSE report_status
            /\ CASE outcome = "EchoMobileError" ->
                      Finish("EchoMobileError", response.message)
                 [] outcome = "KeyError" -> Finish("KeyError", TaskId(report_key))
                 [] outcome = "poll" -> Goto("await_report_generated")
                 [] outcome = "AssertionError" ->
                      Finish("AssertionError",
                             "Report stopped generating, but with an unknown status")
                 [] outcome = "return" ->
                      IF op \in CompositeOps THEN Goto("download_report")
                      ELSE IF op \in GenerateOps THEN Finish("", report_key)
                      ELSE Finish("", NoArg)
    /\ UNCHANGED <<login_data, background_tasks, op, arg, report_key, todo, issued, logins,
                   script, callers, legacy>>

await_report_generated ==
    /\ pc = "await_report_generated"
    /\ AwaitStep(BackgroundTaskResponses, trace, events)

download_report ==
    /\ pc = "download_report"
    /\ \E response \in ServeBodies :
        /\ Sent("GET cms/report/serve", [rkey |-> report_key], response)
        /\ Finish("", response)
    /\ UNCHANGED <<login_data, background_tasks, op, arg, report_key, report_status, todo,
                   issued, logins,
                   events, script, callers, legacy>>

\* Mutant: the cleanup also forgets the login context once the last task
\* is deleted.
delete_background_task_logs_out ==
    /\ pc = "delete_background_task"
    /\ LET task_key == IF op = "delete_session_background_tasks" THEN Head(todo) ELSE arg.key
       IN  \E response \in CancelResponses :
            /\ Sent("POST cms/backgroundtask/cancel", [key |-> task_key], response)
            /\ IF op = "delete_background_task"
               THEN /\ IF ~response.success
                       THEN Finish("EchoMobileError", response.message)
                       ELSE Finish("", NoArg)
                    /\ UNCHANGED <<background_tasks, todo, login_data>>
               ELSE IF response.success /\ task_key \notin background_tasks
               THEN /\ Finish("KeyError", task_key)
                    /\ UNCHANGED <<background_tasks, todo, login_data>>
               ELSE IF ~response.success
               THEN /\ Finish("EchoMobileError", response.message)
                    /\ UNCHANGED <<background_tasks, todo, login_data>>
               ELSE /\ background_tasks' = background_tasks \ {task_key}
                    /\ todo' = Tail(todo)
                    /\ IF Tail(todo) = <<>>
                       THEN Finish("", NoArg) /\ login_data' = None
                       ELSE Goto("delete_background_task") /\ UNCHANGED login_data
    /\ UNCHANGED <<op, arg, report_key, report_status, issued, logins,
                   events, script, callers, legacy>>

\* Mutant: the loop of delete_session_background_tasks swallows a failed
\* cancel and goes on with the next key.
delete_background_task_skip_failed ==
    /\ pc = "delete_background_task"
    /\ LET task_key == IF op = "delete_session_background_tasks" THEN Head(todo) ELSE arg.key
       IN  \E response \in CancelResponses :
            /\ Sent("POST cms/backgroundtask/cancel", [key |-> task_key], response)
            /\ IF op = "delete_background_task"
               THEN /\ IF ~response.success
                       THEN Finish("EchoMobileError", response.message)
                       ELSE Finish("", NoArg)
                    /\ UNCHANGED <<background_tasks, todo>>
               ELSE IF response.success /\ task_key \notin background_tasks
               THEN /\ Finish("KeyError", task_key)
                    /\ UNCHANGED <<background_tasks, todo>>
               ELSE /\ background_tasks' =
                           IF response.success THEN background_tasks \ {task_key}
                           ELSE background_tasks
                    /\ todo' = Tail(todo)
                    /\ IF Tail(todo) = <<>> THEN Finish("", NoArg)
                       ELSE Goto("delete_background_task")
    /\ UNCHANGED <<login_data, op, arg, report_key, report_status, issued, logins,
                   events, script, callers, legacy>>

\* Mutant: the key is removed whether or not the cancel succeeded.
TasksAfterCancel_always(tasks, key, success) == tasks \ {key}

\* Mutant: the loop forgets to remove the key it has cancelled.
TasksAfterCancel_never(tasks, key, success) == tasks

\* One iteration of the loop of delete_session_background_tasks:
\* self.background_tasks.remove(key) runs once delete_background_task(key)
\* has returned, and not when it has raised.
TasksAfterCancel(tasks, key, success) == IF success THEN tasks \ {key} ELSE tasks

delete_background_task ==
    /\ pc = "delete_background_task"
    /\ LET task_key == IF op = "delete_session_background_tasks" THEN Head(todo) ELSE arg.key
       IN  \E response \in CancelResponses :
            /\ Sent("POST cms/backgroundtask/cancel", [key |-> task_key], response)
            /\ IF op = "delete_background_task"
               THEN /\ IF ~response.success
                       THEN Finish("EchoMobileError", response.message)
                       ELSE Finish("", NoArg)
                    /\ UNCHANGED <<background_tasks, todo>>
               ELSE IF response.success /\ task_key \notin background_tasks
               THEN /\ Finish("KeyError", task_key)
                    /\ UNCHANGED <<background_tasks, todo>>
               ELSE IF ~response.success
               THEN /\ Finish("EchoMobileError", response.message)
                    /\ background_tasks' =
                           TasksAfterCancel(background_tasks, task_key, response.success)
                    /\ UNCHANGED todo
               ELSE /\ background_tasks' =
                           TasksAfterCancel(background_tasks, task_key, response.success)
                    /\ todo' = Tail(todo)
                    /\ IF Tail(todo) = <<>> THEN Finish("", NoArg)
                       ELSE Goto("delete_background_task")
    /\ UNCHANGED <<login_data, op, arg, report_key, report_status, issued, logins,
                   events, script, callers, legacy>>

Next ==
    \/ Call
    \/ login
    \/ accounts
    \/ use_account_with_key
    \/ groups
    \/ surveys
    \/ generate_messages_report
    \/ generate_inbox_report
    \/ generate_survey_report
    \/ await_report_generated
    \/ download_report
    \/ delete_background_task

Spec == Init /\ [][Next]_vars

TypeOK ==
    /\ pc \in {"idle", "login", "accounts", "use_account_with_key", "groups", "surveys",
               "generate_messages_report", "generate_inbox_report", "generate_survey_report",
               "await_report_generated", "download_report", "delete_background_task"}
    /\ background_tasks \subseteq {TaskId(k) : k \in RKeys}
    /\ issued \in 0..MaxReports
    /\ Len(logins) \in 0..2

-----------------------------------------------------------------------------
(* Reading the trace of the call in progress.                              *)

IsGenerate(e) == e.req = "POST cms/report/generate"
IsPoll(e) == e.req = "GET cms/backgroundtask"
IsDownload(e) == e.req = "GET cms/report/serve"
IsCancel(e) == e.req = "POST cms/backgroundtask/cancel"
IsJson(e) == ~IsDownload(e)

\* The poll e found the task of report rkey in the task map.
Observed(e, rkey) ==
    IsPoll(e) /\ e.response.success /\ TaskId(rkey) \in DOMAIN e.response.tasks
ObservedStatus(e, rkey) == e.response.tasks[TaskId(rkey)].status

Polls == {i \in DOMAIN trace : IsPoll(trace[i])}
Range(s) == {s[i] : i \in DOMAIN s}
Raised == pc = "idle" /\ result.exc \notin {"", "running"}
Returned == pc = "idle" /\ result.exc = ""

-----------------------------------------------------------------------------
\* C1: in every call that generates a report, once the generation response
\* was successful the task id "report_" + rkey is in background_tasks when the
\* first poll is about to be issued, while polling goes on, and after the
\* polling has failed (server error, missing task entry or unknown status).
C1_RegisteredBeforePolling ==
    \A i \in DOMAIN trace :
        (IsGenerate(trace[i]) /\ trace[i].response.success) =>
            /\ (pc = "await_report_generated" => TaskId(trace[i].response.rkey) \in background_tasks)
            /\ (Polls # {} => TaskId(trace[i].response.rkey) \in background_tasks)

C1_Witness ==
    /\ op \in GenerateOps
    /\ Raised
    /\ result.exc \in {"EchoMobileError", "KeyError", "AssertionError"}
    /\ Polls # {}
    /\ TaskId(report_key) \in background_tasks

\* C2: await_report_generated polls again exactly while the status it read
\* is 1; a status other than 1 ends the polling, with a normal return when
\* it is 3 and with the unknown-status assertion failure otherwise.
C2_AwaitLoop ==
    \A i \in Polls :
        Observed(trace[i], report_key) =>
            LET status == ObservedStatus(trace[i], report_key)
            IN  /\ (i < Len(trace) /\ IsPoll(trace[i + 1])) => status = 1
                /\ (status = 1 /\ i = Len(trace)) => pc = "await_report_generated"
                /\ status = 3 => ~Raised /\ pc # "await_report_generated"
                /\ status \notin {1, 3} =>
                       /\ i = Len(trace)
                       /\ pc = "idle"
                       /\ result.exc = "AssertionError"

C2_Witness ==
    /\ op = "await_report_generated"
    /\ result.exc = "AssertionError"
    /\ Len(trace) = 2
    /\ ObservedStatus(trace[1], report_key) = 1
    /\ ObservedStatus(trace[2], report_key) = 2

\* C3: delete_session_background_tasks removes a key only after its cancel
\* succeeded: at every point of the call the keys cancelled successfully
\* are out of background_tasks, and the key whose cancel failed and the keys
\* not yet attempted are in it.
C3_RemoveOnlyAfterCancel ==
    op = "delete_session_background_tasks" =>
        /\ \A i \in DOMAIN trace :
              trace[i].response.success <=> trace[i].params.key \notin background_tasks
        /\ Range(todo) \subseteq background_tasks
        /\ (Raised => trace[Len(trace)].params.key = Head(todo))

C3_Witness ==
    /\ op = "delete_session_background_tasks"
    /\ Raised
    /\ Len(trace) = 2
    /\ Len(todo) = 2
    /\ trace[1].params.key \notin background_tasks
    /\ background_tasks = {todo[1], todo[2]}

\* C4: in a composite report method the download request for a report key
\* comes after a successful generation and after a poll that read status 3
\* for "report_" + that key, and no download is issued by a call that fails.
C4_DownloadAfterComplete ==
    op \in CompositeOps =>
        /\ \A i \in DOMAIN trace :
              IsDownload(trace[i]) =>
                  \E g, j \in DOMAIN trace :
                      /\ g < j /\ j < i
                      /\ IsGenerate(trace[g])
                      /\ trace[g].response.success
                      /\ trace[g].response.rkey = trace[i].params.rkey
                      /\ Observed(trace[j], trace[i].params.rkey)
                      /\ ObservedStatus(trace[j], trace[i].params.rkey) = 3
        /\ (Raised => \A i \in DOMAIN trace : ~IsDownload(trace[i]))

C4_Witness ==
    /\ op = "survey_report_for_name"
    /\ Returned
    /\ Len(trace) = 4
    /\ IsDownload(trace[4])
    /\ ObservedStatus(trace[3], report_key) = 3

\* C5: for accounts, groups and surveys, a name that exactly one entry of
\* the fetched listing carries resolves to that entry's key, and a name that
\* no entry carries raises KeyError.
Fetched ==
    CASE op = "account_key_for_name" -> trace[1].response.linked
      [] op = "group_key_for_name" -> trace[1].response.groups
      [] op = "survey_key_for_name" -> trace[1].response.surveys

NameOf(entry) == IF op = "account_key_for_name" THEN entry.ent_name ELSE entry.name

Matches == {i \in DOMAIN Fetched : NameOf(Fetched[i]) = arg.name}

Resolved == op \in ResolveOps /\ pc = "idle" /\ trace[1].response.success

C5_ResolveUnique ==
    Resolved =>
        /\ Cardinality(Matches) = 1 =>
              /\ result.exc = ""
              /\ \A i \in Matches : result.val = Fetched[i].key
        /\ Cardinality(Matches) = 0 => result.exc = "KeyError"

C5_Witness ==
    /\ Resolved
    /\ op = "group_key_for_name"
    /\ Len(Fetched) = 2
    /\ Matches = {2}
    /\ result = [exc |-> "", val |-> Fetched[2].key]

\* C6: for accounts, groups and surveys, a name carried by more than one
\* entry of the fetched listing makes the resolver fail with the
\* ambiguous-name assertion, distinct from KeyError, and return no key.
C6_AmbiguousIsError ==
    Resolved => (Cardinality(Matches) > 1 => result.exc = "AssertionError")

\* C7: login_data is None until the first successful login, a successful
\* login stores the whole decoded response, and after several successful
\* logins login_data is the response of the latest one.
C7_LoginData ==
    /\ logins = <<>> <=> login_data = None
    /\ logins # <<>> => login_data = Last(logins)
    /\ (op = "login" /\ Returned) => login_data = trace[1].response

C7_Witness ==
    /\ op = "login"
    /\ Returned
    /\ Len(logins) = 2
    /\ logins[1] # logins[2]
    /\ login_data = logins[2]

\* C8: a login answered with success false raises EchoMobileError with the
\* server's message and leaves login_data as it was before the call.
C8_FailedLoginKeepsData ==
    [][(pc = "login" /\ ~Last(trace').response.success) =>
          /\ login_data' = login_data
          /\ pc' = "idle"
          /\ result' = [exc |-> "EchoMobileError", val |-> Last(trace').response.message]]_vars

C8_Witness ==
    /\ op = "login"
    /\ Raised
    /\ result = [exc |-> "EchoMobileError", val |-> "Invalid credentials"]
    /\ logins # <<>>
    /\ login_data = Last(logins)

\* C9: a JSON response with success false ends the call at once: it is the
\* last request of the call (no retry, no further request), and the call
\* raises EchoMobileError carrying the message of that response.
C9_SuccessChecked ==
    \A i \in DOMAIN trace :
        (IsJson(trace[i]) /\ ~trace[i].response.success) =>
            /\ i = Len(trace)
            /\ pc = "idle"
            /\ result = [exc |-> "EchoMobileError", val |-> trace[i].response.message]

C9_Witness ==
    /\ op = "use_account_with_name"
    /\ Len(trace) = 2
    /\ ~trace[2].response.success
    /\ result = [exc |-> "EchoMobileError", val |-> "server error"]

\* C10: once delete_background_task(task_key) has returned without error,
\* task_key is not in background_tasks.
C10_DeleteShrinks ==
    (op = "delete_background_task" /\ Returned) => arg.key \notin background_tasks
\* C11 (as claimed): a delete of a task removes its key from
\* background_tasks whether the server reports the cancel as successful or
\* as failed; stated for the deletes of delete_session_background_tasks, the
\* method that maintains the set: no key it has posted a cancel for is left.
C11_DeleteRemovesRegardless ==
    op = "delete_session_background_tasks" =>
        \A i \in DOMAIN trace :
            IsCancel(trace[i]) => trace[i].params.key \notin background_tasks

\* C11 (amended): a cancel that the server reports as failed leaves
\* background_tasks unchanged and raises EchoMobileError; the set changes in
\* a cancel step only by losing the cancelled key, only inside
\* delete_session_background_tasks and only when the server reports success,
\* and there the key is always removed.
C11_RemovedOnlyOnSuccess ==
    [][pc = "delete_background_task" =>
          LET e == Last(trace')
          IN  /\ ~e.response.success =>
                    /\ background_tasks' = background_tasks
                    /\ pc' = "idle"
                    /\ result'.exc = "EchoMobileError"
              /\ background_tasks' # background_tasks =>
                    /\ e.response.success
                    /\ op = "delete_session_background_tasks"
                    /\ background_tasks' = background_tasks \ {e.params.key}
              /\ (e.response.success /\ op = "delete_session_background_tasks") =>
                    e.params.key \notin background_tasks']_vars

C11_Witness ==
    /\ op = "delete_session_background_tasks"
    /\ Raised
    /\ result.exc = "EchoMobileError"
    /\ Len(trace) = 1
    /\ ~trace[1].response.success
    /\ trace[1].params.key \in background_tasks
\* C12: a generation request answered with success adds exactly the one
\* task id "report_" + rkey of the returned key to background_tasks, and the
\* call hands back that key; answered with success false it raises
\* EchoMobileError, leaves background_tasks alone and ends the call, so that
\* no poll follows.
C12_OneKeyPerGeneration ==
    [][(pc \in GenerateOps /\ trace' # trace) =>
          LET e == Last(trace')
          IN  IF e.response.success
              THEN /\ background_tasks' = background_tasks \cup {TaskId(e.response.rkey)}
                   /\ Cardinality(background_tasks' \ background_tasks) = 1
                   /\ report_key' = e.response.rkey
                   /\ pc' \in {"idle", "await_report_generated"}
                   /\ pc' = "idle" => result' = [exc |-> "", val |-> e.response.rkey]
              ELSE /\ background_tasks' = background_tasks
                   /\ pc' = "idle"
                   /\ result' = [exc |-> "EchoMobileError", val |-> e.response.message]]_vars

C12_Witness ==
    /\ op \in GenerateOps
    /\ Returned
    /\ Len(trace) = 1
    /\ result.val = trace[1].response.rkey
    /\ Cardinality(background_tasks) = 2
    /\ TaskId(result.val) \in background_tasks
\* C15: generate_messages_report and messages_report, called while
\* login_data is None, raise NoSessionDataError without posting a
\* generation request (background_tasks is then left as it was).
C15_MessagesReportNeedsLogin ==
    (op \in {"generate_messages_report", "messages_report"} /\ pc = "idle"
        /\ login_data = None) =>
            /\ result.exc = "NoSessionDataError"
            /\ trace = <<>>

SurveyReportOps == {"generate_survey_report", "survey_report_for_key", "survey_report_for_name"}
InboxReportOps == {"generate_inbox_report", "global_inbox_report", "group_inbox_report_for_key",
                   "group_inbox_report_for_name", "inbox_report"}
MessagesReportOps == {"generate_messages_report", "messages_report"}

\* C20: every generation request has ftype 1 (CSV); a survey report is
\* requested with type 13 and the survey key as target, an inbox report with
\* type 10 and the group key as target, or with type 11 and no target when
\* no group is given, and a messages report with type 17 and the enterprise
\* key of the login context as target.
C20_TypeCodes ==
    \A i \in DOMAIN trace :
        IsGenerate(trace[i]) =>
            LET params == trace[i].params
            IN  /\ params.ftype = 1
                /\ op \in SurveyReportOps =>
                      params = [type |-> 13, ftype |-> 1, target |-> arg.key]
                /\ (op \in InboxReportOps /\ arg.key # NoArg) =>
                      params = [type |-> 10, ftype |-> 1, target |-> arg.key]
                /\ (op \in InboxReportOps /\ arg.key = NoArg) =>
                      params = [type |-> 11, ftype |-> 1]
                /\ op \in MessagesReportOps =>
                      params = [type |-> 17, ftype |-> 1, target |-> login_data.enterprise.key]

C20_Witness ==
    /\ op = "inbox_report"
    /\ arg.name = "B"
    /\ Len(trace) = 2
    /\ trace[2].params = [type |-> 10, ftype |-> 1, target |-> "k2"]
-----------------------------------------------------------------------------
(* The timestamp helpers.  Strings are TLA+ strings, read character by     *)
(* character; a datetime is a record of calendar fields, with the offset   *)
(* from UTC in minutes when it is aware.                                   *)

Digits == <<"0", "1", "2", "3", "4", "5", "6", "7", "8", "9">>

Char(s, i) == IF i >= 1 /\ i <= Len(s) THEN SubSeq(s, i, i) ELSE ""
IsDigit(c) == \E i \in 1..10 : Digits[i] = c
DigitValue(c) == (CHOOSE i \in 1..10 : Digits[i] = c) - 1
IsSpace(c) == c \in {" ", "\t"}

\* str.endswith
endswith(s, suffix) ==
    Len(s) >= Len(suffix) /\ SubSeq(s, Len(s) - Len(suffix) + 1, Len(s)) = suffix

\* The number of digits of s that start at position i.
RECURSIVE DigitRun(_, _)
DigitRun(s, i) == IF IsDigit(Char(s, i)) THEN 1 + DigitRun(s, i + 1) ELSE 0

\* The number of whitespace characters of s that start at position i.
RECURSIVE SpaceRun(_, _)
SpaceRun(s, i) == IF IsSpace(Char(s, i)) THEN 1 + SpaceRun(s, i + 1) ELSE 0

\* The value of the n digits of s that start at position i.
RECURSIVE NumberAt(_, _, _)
NumberAt(s, i, n) ==
    IF n = 0 THEN 0
    ELSE 10 * NumberAt(s, i, n - 1) + DigitValue(Char(s, i + n - 1))

IsLeap(year) == (year % 4 = 0 /\ year % 100 # 0) \/ year % 400 = 0

DaysInMonth(year, month) ==
    IF month = 2 THEN (IF IsLeap(year) THEN 29 ELSE 28)
    ELSE IF month \in {4, 6, 9, 11} THEN 30
    ELSE 31

\* datetime.strptime(date, "%Y-%m-%d %H:%M"): four digits of year, then
\* month, day, hour and minute of one or two digits each, "-" between the
\* date fields, whitespace before the hour and ":" after it, and nothing
\* left over; the fields must denote a date and a time that exist.
strptime(date) ==
    LET wy == DigitRun(date, 1)
        pm == 6
        wm == DigitRun(date, pm)
        pd == pm + wm + 1
        wd == DigitRun(date, pd)
        ws == SpaceRun(date, pd + wd)
        ph == pd + wd + ws
        wh == DigitRun(date, ph)
        pn == ph + wh + 1
        wn == DigitRun(date, pn)
        year == NumberAt(date, 1, 4)
        month == NumberAt(date, pm, wm)
        day == NumberAt(date, pd, wd)
        hour == NumberAt(date, ph, wh)
        minute == NumberAt(date, pn, wn)
        matches ==
            /\ wy = 4 /\ Char(date, 5) = "-"
            /\ wm \in {1, 2} /\ month \in 1..12 /\ Char(date, pm + wm) = "-"
            /\ wd \in {1, 2} /\ day \in 1..31
            /\ ws >= 1
            /\ wh \in {1, 2} /\ hour \in 0..23 /\ Char(date, ph + wh) = ":"
            /\ wn \in {1, 2} /\ minute \in 0..59
            /\ pn + wn = Len(date) + 1
    IN  IF ~matches THEN [exc |-> "ValueError", val |-> "does not match format"]
        ELSE IF day > DaysInMonth(year, month)
        THEN [exc |-> "ValueError", val |-> "day is out of range for month"]
        ELSE [exc |-> "",
              val |-> [year |-> year, month |-> month, day |-> day,
                       hour |-> hour, minute |-> minute, second |-> 0]]

\* The zones of the tz database that the model knows, by name, and the
\* offset from UTC, in minutes, that each gives a wall-clock time of 2018.
Zones == {"Africa/Nairobi", "UTC", "Asia/Kolkata", "America/New_York"}

\* New York keeps daylight time from 11 March 02:00 to 4 November 02:00.
NewYorkDaylight(t) ==
    LET stamp == ((t.month * 100 + t.day) * 100 + t.hour) * 100 + t.minute
    IN  stamp >= 3110300 /\ stamp < 11040100

\* timezone.localize(parsed).utcoffset(), in minutes
utcoffset(zone, t) ==
    CASE zone = "Africa/Nairobi" -> 180
      [] zone = "UTC" -> 0
      [] zone = "Asia/Kolkata" -> 330
      [] zone = "America/New_York" -> IF NewYorkDaylight(t) THEN -240 ELSE -300

Pad(n, width) ==
    IF width = 4 THEN ToString(n \div 1000) \o ToString((n \div 100) % 10)
                      \o ToString((n \div 10) % 10) \o ToString(n % 10)
    ELSE ToString(n \div 10) \o ToString(n % 10)

\* datetime.isoformat() of an aware datetime with whole seconds
isoformat(t, offset) ==
    LET a == IF offset < 0 THEN -offset ELSE offset
    IN  Pad(t.year, 4) \o "-" \o Pad(t.month, 2) \o "-" \o Pad(t.day, 2) \o "T"
        \o Pad(t.hour, 2) \o ":" \o Pad(t.minute, 2) \o ":" \o Pad(t.second, 2)
        \o (IF offset < 0 THEN "-" ELSE "+") \o Pad(a \div 60, 2) \o ":" \o Pad(a % 60, 2)

\* datetime.toordinal(): the day number of a date, 1 for 0001-01-01.
DaysBeforeYear(year) ==
    LET p == year - 1 IN p * 365 + p \div 4 - p \div 100 + p \div 400

RECURSIVE DaysBeforeMonth(_, _)
DaysBeforeMonth(year, month) ==
    IF month = 1 THEN 0
    ELSE DaysBeforeMonth(year, month - 1) + DaysInMonth(year, month - 1)

toordinal(t) == DaysBeforeYear(t.year) + DaysBeforeMonth(t.year, t.month) + t.day

\* calendar.timegm: the seconds from 1970-01-01T00:00:00 to the calendar
\* fields t, both read in the same zone.
timegm(t) ==
    (toordinal(t) - 719163) * 86400 + t.hour * 3600 + t.minute * 60 + t.second

\* The calendar fields that lie the given number of seconds after
\* 1970-01-01T00:00:00.
fromtimestamp(seconds) ==
    LET n == seconds \div 86400 + 719163
        rest == seconds % 86400
        year == CHOOSE y \in (n \div 366)..(n \div 365 + 1) :
                    DaysBeforeYear(y) < n /\ n <= DaysBeforeYear(y + 1)
        d == n - DaysBeforeYear(year)
        month == CHOOSE m \in 1..12 :
                    /\ DaysBeforeMonth(year, m) < d
                    /\ d <= DaysBeforeMonth(year, m) + DaysInMonth(year, m)
    IN  [year |-> year, month |-> month, day |-> d - DaysBeforeMonth(year, month),
         hour |-> rest \div 3600, minute |-> (rest % 3600) \div 60,
         second |-> rest % 60]

\* The offset from UTC, in minutes, that a zone keeps at an instant given
\* in seconds since the epoch.
utcoffset_at(zone, instant) ==
    CASE zone = "Africa/Nairobi" -> 180
      [] zone = "UTC" -> 0
      [] zone = "Asia/Kolkata" -> 330
      [] zone = "America/New_York" ->
            IF instant >= 1520751600 /\ instant < 1541311200 THEN -240 ELSE -300

\* The instant of an aware datetime, in seconds since the epoch.
timestamp(dt) == timegm(dt) - dt.offset * 60

\* dt.astimezone(zone) of an aware datetime
astimezone(dt, zone) ==
    LET offset == utcoffset_at(zone, timestamp(dt))
        t == fromtimestamp(timestamp(dt) + offset * 60)
    IN  [year |-> t.year, month |-> t.month, day |-> t.day, hour |-> t.hour,
         minute |-> t.minute, second |-> t.second, offset |-> offset]

\* time.mktime of calendar fields with tm_isdst = 0: the fields are read as
\* standard time of the zone the machine is set to.
mktime(t, localzone) == timegm(t) - utcoffset(localzone, t) * 60

\* dateutil's isoparse, for the extended forms YYYY-MM-DD, optionally
\* followed by one separator character and hh:mm or hh:mm:ss, optionally
\* followed by Z or an offset +hh:mm or -hh:mm.  A string with no offset
\* gives a naive datetime.
isoparse(s) ==
    LET year == NumberAt(s, 1, 4)
        month == NumberAt(s, 6, 2)
        day == NumberAt(s, 9, 2)
        datepart ==
            /\ DigitRun(s, 1) = 4 /\ Char(s, 5) = "-"
            /\ DigitRun(s, 6) = 2 /\ Char(s, 8) = "-"
            /\ DigitRun(s, 9) = 2
            /\ month \in 1..12 /\ day >= 1 /\ day <= DaysInMonth(year, month)
        hastime == Len(s) > 10
        hour == NumberAt(s, 12, 2)
        minute == NumberAt(s, 15, 2)
        hassecond == Char(s, 17) = ":"
        second == IF hassecond THEN NumberAt(s, 18, 2) ELSE 0
        pz == IF hassecond THEN 20 ELSE 17
        timepart ==
            /\ Len(s) >= 16
            /\ DigitRun(s, 12) = 2 /\ Char(s, 14) = ":" /\ DigitRun(s, 15) = 2
            /\ hassecond => DigitRun(s, 18) = 2
            /\ hour \in 0..23 /\ minute \in 0..59 /\ second \in 0..59
        sign == Char(s, pz)
        oh == NumberAt(s, pz + 1, 2)
        om == NumberAt(s, pz + 4, 2)
        naive == Len(s) = pz - 1
        zulu == Len(s) = pz /\ sign = "Z"
        numeric ==
            /\ Len(s) = pz + 5 /\ sign \in {"+", "-"}
            /\ DigitRun(s, pz + 1) = 2 /\ Char(s, pz + 3) = ":" /\ DigitRun(s, pz + 4) = 2
            /\ oh \in 0..23 /\ om \in 0..59
        offset == IF numeric THEN (IF sign = "-" THEN -1 ELSE 1) * (oh * 60 + om) ELSE 0
    IN  IF datepart /\ ~hastime
        THEN [exc |-> "",
              val |-> [year |-> year, month |-> month, day |-> day, hour |-> 0,
                       minute |-> 0, second |-> 0, aware |-> FALSE, offset |-> 0]]
        ELSE IF datepart /\ timepart /\ (naive \/ zulu \/ numeric)
        THEN [exc |-> "",
              val |-> [year |-> year, month |-> month, day |-> day, hour |-> hour,
                       minute |-> minute, second |-> second, aware |-> ~naive,
                       offset |-> offset]]
        ELSE [exc |-> "ValueError", val |-> "invalid ISO string"]

-----------------------------------------------------------------------------
(* The timestamp helpers as methods of the session.  They send nothing to  *)
(* the server; each is one step of the idle session.                       *)

\* The dates a caller passes: wall-clock times as Echo Mobile exports them,
\* with and without a trailing zone code.
WallClocks == {"2018-07-01 08:40", "2018-06-02 04:20", "2018-06-01 19:20",
               "2018-12-31 23:59", "2018-7-1 8:40", "2018-02-30 10:00"}
Suffixes == {"", " EAT", " UTC", " CAT"}
Dates == {w \o x : w \in WallClocks, x \in Suffixes}

\* Mutant: the EAT suffix fixes the zone even when the caller passes one.
StripEAT_suffix_wins(date, timezone) ==
    IF endswith(date, " EAT")
    THEN [date |-> SubSeq(date, 1, Len(date) - 4), timezone |-> "Africa/Nairobi"]
    ELSE [date |-> date, timezone |-> timezone]

\* Mutant: the EAT suffix is stripped but fixes no zone.
StripEAT_no_zone(date, timezone) ==
    IF endswith(date, " EAT")
    THEN [date |-> SubSeq(date, 1, Len(date) - 4), timezone |-> timezone]
    ELSE [date |-> date, timezone |-> timezone]

\* The date and the timezone after the handling of the EAT suffix.
StripEAT(date, timezone) ==
    IF endswith(date, " EAT")
    THEN [date |-> SubSeq(date, 1, Len(date) - 4),
          timezone |-> IF timezone = NoArg THEN "Africa/Nairobi" ELSE timezone]
    ELSE [date |-> date, timezone |-> timezone]

\* Mutant: without a login the zone defaults to Africa/Nairobi.
SessionZone_default(data, timezone) ==
    IF timezone # NoArg THEN [exc |-> "", val |-> timezone]
    ELSE IF data = None THEN [exc |-> "", val |-> "Africa/Nairobi"]
    ELSE [exc |-> "", val |-> data.tz]

\* The zone to localize in: the one chosen so far, or else the one of the
\* login data, which must be there.
SessionZone(data, timezone) ==
    IF timezone # NoArg THEN [exc |-> "", val |-> timezone]
    ELSE IF data = None THEN [exc |-> "NoSessionDataError", val |-> NoArg]
    ELSE [exc |-> "", val |-> data.tz]

\* Mutant: the session is checked before the date is parsed.
DateToIso_session_first(data, date, timezone) ==
    LET s == StripEAT(date, timezone)
        parsed == strptime(s.date)
        zone == SessionZone(data, s.timezone)
    IN  IF zone.exc # "" THEN zone
        ELSE IF parsed.exc # "" THEN parsed
        ELSE [exc |-> "", val |-> isoformat(parsed.val, utcoffset(zone.val, parsed.val))]

\* What echo_mobile_date_to_iso returns or raises.
DateToIso(data, date, timezone) ==
    LET s == StripEAT(date, timezone)
        parsed == strptime(s.date)
        zone == SessionZone(data, s.timezone)
    IN  IF parsed.exc # "" THEN parsed
        ELSE IF zone.exc # "" THEN zone
        ELSE [exc |-> "", val |-> isoformat(parsed.val, utcoffset(zone.val, parsed.val))]

echo_mobile_date_to_iso ==
    /\ pc = "idle"
    /\ \E date \in Dates : \E timezone \in Zones \cup {NoArg} :
        /\ op' = "echo_mobile_date_to_iso"
        /\ arg' = [date |-> date, timezone |-> timezone]
        /\ result' = DateToIso(login_data, date, timezone)
    /\ trace' = <<>>
    /\ UNCHANGED <<login_data, background_tasks, pc, report_key, report_status,
                   todo, issued, logins,
                   events, script, callers, legacy>>

\* The aware datetimes a caller passes, as calendar fields and the offset
\* from UTC in minutes.
Datetimes ==
    {[year |-> 2018, month |-> 7, day |-> 2, hour |-> 19, minute |-> 40,
      second |-> 0, offset |-> o] : o \in {180, 60, 0}}
    \cup {[year |-> 2018, month |-> 12, day |-> 31, hour |-> 23, minute |-> 59,
           second |-> 30, offset |-> -300],
          [year |-> 2018, month |-> 3, day |-> 1, hour |-> 0, minute |-> 30,
           second |-> 0, offset |-> 330]}

\* What date_to_echo_mobile_timezone returns or raises: login_data is
\* subscripted whether or not it is None.
DateToEchoMobileTimezone(data, dt) ==
    IF data = None THEN [exc |-> "TypeError", val |-> NoArg]
    ELSE [exc |-> "", val |-> astimezone(dt, data.tz)]

date_to_echo_mobile_timezone ==
    /\ pc = "idle"
    /\ \E dt \in Datetimes :
        /\ op' = "date_to_echo_mobile_timezone"
        /\ arg' = [dt |-> dt]
        /\ result' = DateToEchoMobileTimezone(login_data, dt)
    /\ trace' = <<>>
    /\ UNCHANGED <<login_data, background_tasks, pc, report_key, report_status,
                   todo, issued, logins,
                   events, script, callers, legacy>>

\* The messages a caller passes: dictionaries keyed as the test and as the
\* report scripts key them.
IsoDates == {"2018-06-02T10:33:00+03:00", "2018-06-02T07:33:00Z",
             "2018-06-02T07:33:00+00:00", "2018-06-01T23:33:00-08:00",
             "2018-07-02T19:40:00+01:00", "2018-12-31 23:59:30-05:00",
             "2018-06-02T10:33", "2018-06-02", "yesterday"}
Messages ==
    {("phone" :> "avf-phone-id-c4fd6565" @@ "date-time" :> iso @@ "msg" :> "Hello!")
        : iso \in IsoDates}
    \cup {("avf_phone_id" :> "avf-phone-id-0a1b" @@ "Date" :> iso @@ "Message" :> ""
           @@ "Group" :> "A") : iso \in IsoDates}
KeyChoices ==
    {[sender_key |-> "phone", date_key |-> "date-time", message_key |-> "msg"],
     [sender_key |-> "avf_phone_id", date_key |-> "Date", message_key |-> "Message"],
     [sender_key |-> "phone", date_key |-> "date-time", message_key |-> "Message"]}

\* The zones the machine that runs the client can be set to.
LocalZones == {"UTC", "Africa/Nairobi"}

\* Mutant: the calendar fields are handed to mktime as written, without
\* the conversion to UTC.
NormaliseMessage_no_utc(d, sender_key, date_key, message_key, localzone) ==
    IF sender_key \notin DOMAIN d THEN [exc |-> "KeyError", val |-> sender_key]
    ELSE IF date_key \notin DOMAIN d THEN [exc |-> "KeyError", val |-> date_key]
    ELSE LET parsed == isoparse(d[date_key])
         IN  IF parsed.exc # "" THEN parsed
             ELSE IF message_key \notin DOMAIN d THEN [exc |-> "KeyError", val |-> message_key]
             ELSE [exc |-> "",
                   val |-> [Sender |-> d[sender_key],
                            Date |-> mktime(parsed.val, localzone),
                            Message |-> d[message_key]]]

\* What normalise_message returns or raises on a machine set to localzone.
NormaliseMessage(d, sender_key, date_key, message_key, localzone) ==
    IF sender_key \notin DOMAIN d THEN [exc |-> "KeyError", val |-> sender_key]
    ELSE IF date_key \notin DOMAIN d THEN [exc |-> "KeyError", val |-> date_key]
    ELSE LET parsed == isoparse(d[date_key])
             t == parsed.val
             aware == [year |-> t.year, month |-> t.month, day |-> t.day,
                       hour |-> t.hour, minute |-> t.minute, second |-> t.second,
                       offset |-> IF t.aware THEN t.offset ELSE utcoffset(localzone, t)]
         IN  IF parsed.exc # "" THEN parsed
             ELSE IF message_key \notin DOMAIN d THEN [exc |-> "KeyError", val |-> message_key]
             ELSE [exc |-> "",
                   val |-> [Sender |-> d[sender_key],
                            Date |-> mktime(astimezone(aware, "UTC"), localzone),
                            Message |-> d[message_key]]]

normalise_message ==
    /\ pc = "idle"
    /\ \E d \in Messages : \E k \in KeyChoices : \E localzone \in LocalZones :
        /\ op' = "normalise_message"
        /\ arg' = [d |-> d, sender_key |-> k.sender_key, date_key |-> k.date_key,
                   message_key |-> k.message_key, localzone |-> localzone]
        /\ result' = NormaliseMessage(d, k.sender_key, k.date_key, k.message_key, localzone)
    /\ trace' = <<>>
    /\ UNCHANGED <<login_data, background_tasks, pc, report_key, report_status,
                   todo, issued, logins,
                   events, script, callers, legacy>>

\* The caller logs in.
CallLogin == Call /\ op' = "login"

\* A session that logs in and converts dates.
DateNext ==
    \/ CallLogin
    \/ login
    \/ echo_mobile_date_to_iso
    \/ date_to_echo_mobile_timezone
    \/ normalise_message

DateSpec == Init /\ [][DateNext]_vars

-----------------------------------------------------------------------------
(* Claims about the timestamp helpers, stated over DateSpec.               *)

\* The valid wall-clock inputs and the date and time of the ISO text each
\* denotes, written out by hand.
WallClockIso ==
    "2018-07-01 08:40" :> "2018-07-01T08:40:00"
    @@ "2018-06-02 04:20" :> "2018-06-02T04:20:00"
    @@ "2018-06-01 19:20" :> "2018-06-01T19:20:00"
    @@ "2018-12-31 23:59" :> "2018-12-31T23:59:00"
    @@ "2018-7-1 8:40" :> "2018-07-01T08:40:00"

\* The offset each zone keeps at each of the valid wall-clock inputs.
OffsetText(zone, wall) ==
    CASE zone = "Africa/Nairobi" -> "+03:00"
      [] zone = "UTC" -> "+00:00"
      [] zone = "Asia/Kolkata" -> "+05:30"
      [] zone = "America/New_York" ->
            IF wall = "2018-12-31 23:59" THEN "-05:00" ELSE "-04:00"

\* The input of the last call without its " EAT" suffix, if it has one.
WallOf(date) ==
    IF endswith(date, " EAT") THEN SubSeq(date, 1, Len(date) - 4) ELSE date

DateCall == op = "echo_mobile_date_to_iso"

\* C13: echo_mobile_date_to_iso on a well-formed date with no " EAT" suffix
\* and no timezone argument raises NoSessionDataError while login_data is
\* None, and with login_data.tz = "Africa/Nairobi" returns the same
\* wall-clock time at offset +03:00.
C13_SessionZoneUsed ==
    (DateCall /\ arg.timezone = NoArg /\ arg.date \in DOMAIN WallClockIso) =>
        /\ login_data = None =>
              result = [exc |-> "NoSessionDataError", val |-> NoArg]
        /\ (login_data # None /\ login_data.tz = "Africa/Nairobi") =>
              result = [exc |-> "", val |-> WallClockIso[arg.date] \o "+03:00"]

C13_Witness ==
    /\ DateCall /\ arg.timezone = NoArg /\ arg.date = "2018-07-01 08:40"
    /\ login_data # None /\ login_data.tz = "Africa/Nairobi"
    /\ result.val = "2018-07-01T08:40:00+03:00"
    /\ Len(logins) = 2

\* The instants of the datetimes passed to date_to_echo_mobile_timezone,
\* as ISO text at offset +03:00, written out by hand.
NairobiIso(dt) ==
    CASE dt.month = 7 /\ dt.offset = 180 -> "2018-07-02T19:40:00+03:00"
      [] dt.month = 7 /\ dt.offset = 60 -> "2018-07-02T21:40:00+03:00"
      [] dt.month = 7 /\ dt.offset = 0 -> "2018-07-02T22:40:00+03:00"
      [] dt.month = 12 -> "2019-01-01T07:59:30+03:00"
      [] dt.month = 3 -> "2018-02-28T22:00:00+03:00"

\* C14: date_to_echo_mobile_timezone fails with NoSessionDataError when the
\* session has not logged in, and after a login with tz = "Africa/Nairobi"
\* returns the same instant at offset +03:00 for any input offset.
C14_ToSessionZone ==
    op = "date_to_echo_mobile_timezone" =>
        /\ login_data = None => result.exc = "NoSessionDataError"
        /\ (login_data # None /\ login_data.tz = "Africa/Nairobi") =>
              /\ result.exc = ""
              /\ isoformat(result.val, result.val.offset) = NairobiIso(arg.dt)

\* C16: for every valid date, with or without a trailing " EAT", and in
\* every login state, a timezone argument wins: the output carries the
\* offset of the argument and the wall-clock fields of the input.
C16_OverrideWins ==
    (DateCall /\ arg.timezone # NoArg /\ WallOf(arg.date) \in DOMAIN WallClockIso) =>
        result = [exc |-> "",
                  val |-> WallClockIso[WallOf(arg.date)]
                          \o OffsetText(arg.timezone, WallOf(arg.date))]

C16_Witness ==
    /\ DateCall /\ arg.date = "2018-06-02 04:20 EAT" /\ arg.timezone = "UTC"
    /\ login_data # None /\ login_data.tz = "Africa/Nairobi"
    /\ result.val = "2018-06-02T04:20:00+00:00"

\* C17: echo_mobile_date_to_iso on a date ending in " EAT" with no timezone
\* argument returns the wall-clock time at offset +03:00 in every login
\* state, whatever the timezone of the login data.
C17_EatIsNairobi ==
    (DateCall /\ arg.timezone = NoArg /\ endswith(arg.date, " EAT")
        /\ WallOf(arg.date) \in DOMAIN WallClockIso) =>
        result = [exc |-> "", val |-> WallClockIso[WallOf(arg.date)] \o "+03:00"]

C17_Witness ==
    /\ DateCall /\ arg.date = "2018-06-02 04:20 EAT" /\ arg.timezone = NoArg
    /\ login_data # None /\ login_data.tz = "UTC"
    /\ result.val = "2018-06-02T04:20:00+03:00"

\* C18: echo_mobile_date_to_iso on a date ending in a three-letter code
\* other than EAT raises ValueError before and after login, with and without
\* a timezone argument; before login it is ValueError, not
\* NoSessionDataError.
C18_OtherSuffixRejected ==
    (DateCall /\ \E x \in {" UTC", " CAT"} : endswith(arg.date, x)) =>
        result.exc = "ValueError"

C18_Witness ==
    /\ DateCall /\ arg.date = "2018-07-01 08:40 UTC" /\ arg.timezone = NoArg
    /\ login_data = None
    /\ result.exc = "ValueError"

\* The POSIX timestamps of the instants of the ISO dates passed to
\* normalise_message, written out by hand.
PosixTimestamp ==
    "2018-06-02T10:33:00+03:00" :> 1527924780
    @@ "2018-06-02T07:33:00Z" :> 1527924780
    @@ "2018-07-02T19:40:00+01:00" :> 1530556800
    @@ "2018-12-31 23:59:30-05:00" :> 1546318770

\* C19: normalise_message returns exactly the keys Sender, Date and Message,
\* with Sender and Message copied from d and Date the POSIX timestamp of the
\* instant that the ISO string at date_key denotes.
C19_PosixDate ==
    (op = "normalise_message" /\ result.exc = ""
        /\ arg.d[arg.date_key] \in DOMAIN PosixTimestamp) =>
        /\ DOMAIN result.val = {"Sender", "Date", "Message"}
        /\ result.val.Sender = arg.d[arg.sender_key]
        /\ result.val.Message = arg.d[arg.message_key]
        /\ result.val.Date = PosixTimestamp[arg.d[arg.date_key]]

-----------------------------------------------------------------------------
(* The command-line scripts built on the session: inbox_report.py,         *)
(* messages_report.py, survey_report.py and                                *)
(* survey_report_export_everything.py.  Each constructs a session, runs    *)
(* login, use_account_with_name and its report calls in a try block, and   *)
(* calls delete_session_background_tasks in the finally clause.  A step of *)
(* a script runs it from the return of one session call to the next call.  *)

Scripts == {"inbox_report.py", "messages_report.py", "survey_report.py",
            "survey_report_export_everything.py"}

\* The command lines: the account name, and the inbox or the survey name.
CommandLines ==
    {[name |-> "inbox_report.py", account |-> a, target |-> t] :
        a \in Names, t \in Names \cup {NoArg}}
    \cup {[name |-> "survey_report.py", account |-> a, target |-> t] :
            a \in Names, t \in Names}
    \cup {[name |-> n, account |-> a, target |-> NoArg] :
            n \in {"messages_report.py", "survey_report_export_everything.py"},
            a \in Names}

\* The date range messages_report.py is given.
user_start_date ==
    [year |-> 2018, month |-> 7, day |-> 2, hour |-> 19, minute |-> 40,
     second |-> 0, offset |-> 60]
user_end_date ==
    [year |-> 2018, month |-> 12, day |-> 31, hour |-> 23, minute |-> 59,
     second |-> 30, offset |-> -300]

\* A script at its first statement after the construction of the session:
\* at is the statement the script has reached, pending the exception that
\* left the try block, surveys the rest of the list the export loop walks,
\* outstanding the tasks the session held when the finally clause began and
\* exit the exception the script ends with; rows, field, next and localzone
\* belong to the loops over the rows of the report that follow the try
\* statement.
ScriptInit ==
    /\ Constructed
    /\ \E c \in CommandLines :
        script = [name |-> c.name, account |-> c.account, target |-> c.target,
                  at |-> "start", pending |-> "", surveys |-> <<>>,
                  outstanding |-> {}, exit |-> "",
                  rows |-> <<>>, field |-> NoArg, next |-> 1, localzone |-> NoArg]
    /\ callers = <<>>

NoArgs == [name |-> NoArg, key |-> NoArg, wait |-> TRUE]

\* The positions of a script inside its try block.
Block == {"start", "login", "use_account", "surveys", "report", "written"}

\* The script calls method o of the session and is at position at meanwhile.
ScriptCall(o, a, at) ==
    /\ Invoke(o, a)
    /\ script' = [script EXCEPT !.at = at]
    /\ UNCHANGED <<login_data, background_tasks, issued, logins, callers, legacy>>

\* The finally clause: session.delete_session_background_tasks(), entered
\* with exception exc pending, or none.
Finally(exc) ==
    /\ Invoke("delete_session_background_tasks", NoArgs)
    /\ script' = [script EXCEPT !.at = "finally", !.pending = exc,
                                !.outstanding = background_tasks]
    /\ UNCHANGED <<login_data, background_tasks, issued, logins, callers, legacy>>

\* session.login(echo_mobile_username, echo_mobile_password)
script_login ==
    /\ pc = "idle" /\ script.at = "start"
    /\ ScriptCall("login", NoArgs, "login")

\* session.use_account_with_name(account_name)
script_use_account ==
    /\ Returned /\ script.at = "login"
    /\ ScriptCall("use_account_with_name", [NoArgs EXCEPT !.name = script.account],
                  "use_account")

\* The report call of each script, the call of surveys() in the export
\* script; messages_report.py converts its dates first.
script_report ==
    /\ Returned /\ script.at = "use_account"
    /\ CASE script.name = "inbox_report.py" ->
              ScriptCall("inbox_report", [NoArgs EXCEPT !.name = script.target], "report")
         [] script.name = "survey_report.py" ->
              ScriptCall("survey_report_for_name", [NoArgs EXCEPT !.name = script.target],
                         "report")
         [] script.name = "messages_report.py" ->
              LET echo_mobile_start_date == DateToEchoMobileTimezone(login_data, user_start_date)
                  echo_mobile_end_date == DateToEchoMobileTimezone(login_data, user_end_date)
              IN  IF echo_mobile_start_date.exc # "" THEN Finally(echo_mobile_start_date.exc)
                  ELSE IF echo_mobile_end_date.exc # "" THEN Finally(echo_mobile_end_date.exc)
                  ELSE ScriptCall("messages_report", NoArgs, "report")
         [] script.name = "survey_report_export_everything.py" ->
              ScriptCall("surveys", NoArgs, "surveys")

\* The loop of the export script: the next survey of the listing is
\* requested with survey_report_for_key(survey["key"]).
script_next_survey ==
    /\ script.name = "survey_report_export_everything.py"
    /\ \/ Returned /\ script.at = "surveys"
       \/ pc = "idle" /\ script.at = "written"
    /\ LET rest == IF script.at = "surveys" THEN result.val ELSE script.surveys
       IN  /\ rest # <<>>
           /\ Invoke("survey_report_for_key", [NoArgs EXCEPT !.key = Head(rest).key])
           /\ script' = [script EXCEPT !.at = "report", !.surveys = Tail(rest)]
    /\ UNCHANGED <<login_data, background_tasks, issued, logins, callers, legacy>>

\* The export script writes the report to its file, which succeeds or
\* raises.
script_write ==
    /\ script.name = "survey_report_export_everything.py"
    /\ Returned /\ script.at = "report"
    /\ \E written \in BOOLEAN :
        IF written
        THEN /\ script' = [script EXCEPT !.at = "written"]
             /\ UNCHANGED <<login_data, background_tasks, op, pc, arg, report_key,
                            report_status, todo, result, trace, issued, logins, events,
                            callers, legacy>>
        ELSE Finally("IOError")

\* Mutant: no finally clause; an exception ends the script at once and
\* the cleanup runs only at the end of the block.
script_finally_at_end_only ==
    /\ pc = "idle" /\ script.at \in Block \ {"start"}
    /\ IF result.exc # "" /\ script.at # "written"
       THEN /\ script' = [script EXCEPT !.at = "exit", !.exit = result.exc]
            /\ UNCHANGED <<login_data, background_tasks, op, pc, arg, report_key,
                           report_status, todo, result, trace, issued, logins, events,
                           callers, legacy>>
       ELSE /\ IF script.name = "survey_report_export_everything.py"
               THEN \/ script.at = "surveys" /\ result.val = <<>>
                    \/ script.at = "written" /\ script.surveys = <<>>
               ELSE script.at = "report"
            /\ Finally("")

\* The try block is left: a call has raised, or the block is at its end.
script_finally ==
    /\ pc = "idle" /\ script.at \in Block \ {"start"}
    /\ IF result.exc # "" /\ script.at # "written" THEN Finally(result.exc)
       ELSE /\ IF script.name = "survey_report_export_everything.py"
               THEN \/ script.at = "surveys" /\ result.val = <<>>
                    \/ script.at = "written" /\ script.surveys = <<>>
               ELSE script.at = "report"
            /\ Finally("")

\* The finally clause is over: what it raised, or else the pending
\* exception, goes on to the caller of the block.
script_exit ==
    /\ pc = "idle" /\ script.at = "finally"
    /\ script' = [script EXCEPT !.at = "exit",
                                !.exit = IF result.exc # "" THEN result.exc ELSE script.pending]
    /\ UNCHANGED <<login_data, background_tasks, op, pc, arg, report_key, report_status,
                   todo, result, trace, issued, logins, events, callers, legacy>>

ScriptNext ==
    \/ script_login
    \/ script_use_account
    \/ script_report
    \/ script_next_survey
    \/ script_write
    \/ script_finally
    \/ script_exit
    \/ login
    \/ accounts
    \/ use_account_with_key
    \/ groups
    \/ surveys
    \/ generate_messages_report
    \/ generate_inbox_report
    \/ generate_survey_report
    \/ await_report_generated
    \/ download_report
    \/ delete_background_task

ScriptSpec == ScriptInit /\ [][ScriptNext]_vars

-----------------------------------------------------------------------------
(* Claims about the scripts, stated over ScriptSpec.                       *)

\* The cancel requests of the call in progress.
Cancels == {i \in DOMAIN trace : IsCancel(trace[i])}

\* C21 (as claimed): in every script the try block is left only into the
\* finally clause, which calls delete_session_background_tasks, whether the
\* block has completed or a step of it has failed; when the script ends,
\* that call was the last one and it has posted a cancel for every task
\* created before, and if every cancel succeeded background_tasks is empty.
C21_CancelForEveryTask ==
    /\ [](script.at = "exit" =>
            /\ op = "delete_session_background_tasks"
            /\ \A k \in script.outstanding :
                  \E i \in Cancels : trace[i].params.key = k
            /\ (\A i \in Cancels : trace[i].response.success) => background_tasks = {})
    /\ [][(script.at \in Block /\ script'.at \notin Block) =>
            /\ script'.at = "finally"
            /\ op' = "delete_session_background_tasks"]_vars

\* C21 (amended): in every script the try block is left only into the
\* finally clause, which calls delete_session_background_tasks on the tasks
\* created before, whether the block has completed or a step of it has
\* failed; when the script ends, that call was the last one and it has
\* posted cancels for distinct tasks of those, at least one if there was
\* any, up to the first cancel that failed.  A failed cancel is the last
\* request and the script ends with its EchoMobileError; the tasks whose
\* cancel succeeded have left background_tasks, the failed one and those
\* not attempted stay.  If every cancel succeeded, every task has been
\* cancelled and background_tasks is empty.
C21_CleanupOnEveryExit ==
    /\ [](script.at = "exit" =>
            LET failed == {i \in Cancels : ~trace[i].response.success}
                cancelled == {trace[i].params.key : i \in Cancels \ failed}
                attempted == {trace[i].params.key : i \in Cancels}
            IN  /\ op = "delete_session_background_tasks"
                /\ Cancels = DOMAIN trace
                /\ attempted \subseteq script.outstanding
                /\ Cardinality(attempted) = Cardinality(Cancels)
                /\ script.outstanding # {} => Cancels # {}
                /\ failed \subseteq {Len(trace)}
                /\ background_tasks = script.outstanding \ cancelled
                /\ failed # {} => script.exit = "EchoMobileError"
                /\ failed = {} =>
                      /\ attempted = script.outstanding
                      /\ background_tasks = {}
                      /\ script.exit = script.pending)
    /\ [][(script.at \in Block /\ script'.at \notin Block) =>
            /\ script'.at = "finally"
            /\ op' = "delete_session_background_tasks"
            /\ script'.outstanding = background_tasks]_vars

\* The export script has two reports to clean up and the first cancel
\* fails: the other task gets no cancel and both stay registered.
C21_Witness ==
    /\ script.name = "survey_report_export_everything.py"
    /\ script.at = "exit"
    /\ Cardinality(script.outstanding) = 2
    /\ Cancels = {1}
    /\ ~trace[1].response.success
    /\ script.exit = "EchoMobileError"
    /\ background_tasks = script.outstanding

-----------------------------------------------------------------------------
(* Polling against a server that may report a task as generating for       *)
(* ever.  The logs of a call keep the requests before the polls and the    *)
(* latest poll only, so that the loop can go round without end.            *)

NotPoll(e) == ~IsPoll(e)

\* One iteration of the polling loop, the server being free to report any
\* state of the task at any poll.
poll_unbounded ==
    /\ pc = "await_report_generated"
    /\ AwaitStep(TaskResponses(TaskStates), SelectSeq(trace, NotPoll), <<>>)

\* The methods that poll without a listing request before.
PollingOps ==
    GenerateOps \cup {"await_report_generated", "survey_report_for_key", "messages_report",
                      "global_inbox_report", "group_inbox_report_for_key"}

\* The caller invokes a method that waits for a report, or logs in.
CallPolling == Call /\ op' \in PollingOps \cup {"login"} /\ arg'.wait

PollNext ==
    \/ CallPolling
    \/ login
    \/ generate_messages_report
    \/ generate_inbox_report
    \/ generate_survey_report
    \/ poll_unbounded
    \/ download_report

PollSpec == Init /\ [][PollNext]_vars

\* The poll e of report rkey found the task still generating.
StillGenerating(e, rkey) == Observed(e, rkey) /\ ObservedStatus(e, rkey) = Generating

\* C22: the polling loop has no bound of its own: a poll that finds the
\* task with status 1 is followed by another poll, however many went before,
\* and the loop is left, by return or by failure, exactly at a poll that
\* yields a server error, a task map without the entry, or another status.
C22_PollingUnbounded ==
    [][pc = "await_report_generated" =>
          LET e == Last(trace')
          IN  /\ IsPoll(e)
              /\ pc' = "await_report_generated" <=> StillGenerating(e, report_key)
              /\ StillGenerating(e, report_key) =>
                    /\ report_status' = Generating
                    /\ UNCHANGED <<result, background_tasks, report_key>>
              /\ ~StillGenerating(e, report_key) =>
                    \/ pc' = "idle"
                    \/ pc' = "download_report" /\ op \in CompositeOps]_vars

\* The loop has gone round at least once and goes on.
C22_Witness ==
    /\ pc = "await_report_generated"
    /\ op = "await_report_generated"
    /\ trace # <<>> /\ StillGenerating(Last(trace), report_key)
    /\ Last(trace).response.tasks[TaskId(report_key)].progress = 1

-----------------------------------------------------------------------------
\* C28: every poll request is preceded by one sleep of poll_interval, and
\* await_report_generated has slept and polled at least once when it returns
\* or raises, also when its first poll finds the report complete.
C28_SleepThenPoll ==
    /\ Len(events) = 2 * Cardinality(Polls)
    /\ \A i \in DOMAIN events : events[i] = (IF i % 2 = 1 THEN "sleep" ELSE "poll")
    /\ (op = "await_report_generated" /\ pc = "idle") =>
          /\ Polls # {}
          /\ SubSeq(events, 1, 2) = <<"sleep", "poll">>

\* The report is complete at the first poll.
C28_Witness ==
    /\ op = "await_report_generated" /\ Returned
    /\ events = <<"sleep", "poll">>
    /\ Len(trace) = 1 /\ ObservedStatus(trace[1], report_key) = Complete

\* The poll e was answered with success and a task map that has no entry
\* for report rkey.
TaskMissing(e, rkey) ==
    IsPoll(e) /\ e.response.success /\ TaskId(rkey) \notin DOMAIN e.response.tasks

\* C29: when a successful poll response has no entry for "report_" +
\* report_key in its task map, await_report_generated fails at once, with
\* the KeyError of the lookup: it neither polls again nor returns.
C29_MissingTaskFails ==
    [][(pc = "await_report_generated" /\ TaskMissing(Last(trace'), report_key)) =>
          /\ pc' = "idle"
          /\ result' = [exc |-> "KeyError", val |-> TaskId(report_key)]
          /\ UNCHANGED <<background_tasks, report_status>>]_vars

\* The task map holds another task only.
C29_Witness ==
    /\ Raised /\ result.exc = "KeyError"
    /\ op \in GenerateOps
    /\ TaskMissing(Last(trace), report_key)
    /\ Last(trace).response.tasks # <<>>
    /\ TaskId(report_key) \in background_tasks

-----------------------------------------------------------------------------
\* C23: for accounts, groups and surveys alike, the failure of a resolution
\* whose name no entry of the fetched listing carries is a KeyError whose
\* message includes the name of every entry of the listing.
C23_NotFoundListsNames ==
    (Resolved /\ Matches = {}) =>
        /\ result.exc = "KeyError"
        /\ \A i \in DOMAIN Fetched : NameOf(Fetched[i]) \in Range(result.val)

IsListAccounts(e) == e.req = "GET cms/account/me"
IsSwitch(e) == e.req = "POST authenticate/linked"

\* C24: use_account_with_name fetches the account listing first and posts
\* the switch request second, if at all: the switch is posted only when the
\* listing request succeeded and the name resolved, and with a key that an
\* entry of that listing carries under the name.
C24_ListResolveSwitch ==
    op = "use_account_with_name" =>
        /\ Len(trace) <= 2
        /\ Len(trace) >= 1 => IsListAccounts(trace[1])
        /\ pc = "idle" => trace # <<>>
        /\ Len(trace) = 2 =>
              /\ IsSwitch(trace[2])
              /\ trace[1].response.success
              /\ \E i \in DOMAIN trace[1].response.linked :
                    /\ trace[1].response.linked[i].ent_name = arg.name
                    /\ trace[1].response.linked[i].key = trace[2].params.acckey
        /\ (Len(trace) = 1 /\ pc = "idle") =>
              /\ Raised
              /\ \/ ~trace[1].response.success
                 \/ \A i \in DOMAIN trace[1].response.linked :
                        trace[1].response.linked[i].ent_name # arg.name
        /\ pc = "use_account_with_key" => Len(trace) = 1

C24_Witness ==
    /\ op = "use_account_with_name" /\ Returned
    /\ arg.name = "A"
    /\ trace[1].response.linked = <<[ent_name |-> "B", key |-> "k2"],
                                    [ent_name |-> "A", key |-> "k1"]>>
    /\ trace[2].params.acckey = "k1"

\* The listing request that each resolver issues.
ListingRequest ==
    CASE op = "account_key_for_name" -> "GET cms/account/me"
      [] op = "group_key_for_name" -> "GET cms/group"
      [] op = "survey_key_for_name" -> "GET cms/survey"

\* C25: every call of account_key_for_name, group_key_for_name or
\* survey_key_for_name issues exactly one listing request, and its outcome
\* is read off the response to that request alone: a key returned is the key
\* of an entry of that listing with the name, whatever earlier listings
\* held, and a failed listing request fails the call.
C25_ResolvedFromFreshListing ==
    op \in ResolveOps =>
        /\ Len(trace) <= 1
        /\ pc = "idle" =>
              /\ Len(trace) = 1
              /\ trace[1].req = ListingRequest
              /\ ~trace[1].response.success => result.exc = "EchoMobileError"
              /\ (trace[1].response.success /\ result.exc = "") =>
                    \E i \in Matches : result.val = Fetched[i].key
              /\ (trace[1].response.success /\ Matches = {}) => result.exc = "KeyError"

\* The name A resolves to k2, the key the listing of this call gives it.
C25_Witness ==
    /\ op = "group_key_for_name" /\ Returned
    /\ arg.name = "A"
    /\ Fetched = <<[name |-> "B", key |-> "k2"], [name |-> "A", key |-> "k2"]>>
    /\ result.val = "k2"

\* The caller invokes download_report with report key rkey.
CallDownload(rkey) == Call /\ op' = "download_report" /\ arg'.key = rkey

\* C27: with wait_until_generated = False each generate_* method returns
\* the report key of the generation response, with "report_" + rkey
\* registered in background_tasks and no poll issued; download_report can
\* then be called for that key at once, and a call of download_report sends
\* its request without any poll, whatever the state of the report.
C27_NoWaitThenDownload ==
    /\ (op \in GenerateOps /\ ~arg.wait /\ Returned) =>
          /\ Len(trace) = 1 /\ IsGenerate(trace[1])
          /\ result.val = trace[1].response.rkey
          /\ TaskId(result.val) \in background_tasks
          /\ Polls = {} /\ events = <<>>
          /\ ENABLED CallDownload(result.val)
    /\ op = "download_report" =>
          /\ Polls = {}
          /\ pc = "download_report" => (trace = <<>> /\ ENABLED download_report)
          /\ pc = "idle" =>
                /\ Returned
                /\ Len(trace) = 1 /\ IsDownload(trace[1])
                /\ trace[1].params.rkey = arg.key

\* The first report of the session was requested without waiting and no
\* call has polled since.
C27_Witness ==
    /\ op = "generate_inbox_report" /\ ~arg.wait /\ Returned
    /\ result.val = "r1" /\ issued = 1
    /\ background_tasks = {"report_r1"}
    /\ ENABLED CallDownload("r1")

\* The task ids of the reports this session has had generated.
Created == {TaskId(RKey(i)) : i \in 1..issued}

\* C30: in single-threaded use background_tasks holds ids of tasks of this
\* session only, and it changes in two ways only: a successful generation
\* response adds "report_" + rkey, and a successful cancel made by
\* delete_session_background_tasks removes the key cancelled.
C30_TasksCreatedNotDeleted ==
    /\ [](background_tasks \subseteq Created)
    /\ [][background_tasks' =
            IF pc \in GenerateOps /\ trace' # trace /\ Last(trace').response.success
            THEN background_tasks \cup {TaskId(Last(trace').response.rkey)}
            ELSE IF /\ pc = "delete_background_task"
                    /\ op = "delete_session_background_tasks"
                    /\ Last(trace').response.success
            THEN background_tasks \ {Last(trace').params.key}
            ELSE background_tasks]_vars

\* Three reports were generated, one task was deleted and the cancel of the
\* next has failed.
C30_Witness ==
    /\ op = "delete_session_background_tasks" /\ Raised
    /\ issued = 3
    /\ Cardinality(background_tasks) = 2
    /\ Len(trace) = 2

-----------------------------------------------------------------------------
(* Two threads that call delete_session_background_tasks on one session.   *)
(* The session has no lock: the threads share background_tasks, each has   *)
(* its own snapshot and loop variable, and they interleave between the     *)
(* snapshot, each request and each remove.                                 *)

Callers == 1..2

\* A thread that has not called yet: todo is the rest of its snapshot, key
\* the key its loop is at, posted the cancel requests it has made so far
\* with their responses, removed the keys it has removed, exc what its call
\* has raised.
ReadyCaller ==
    [pc |-> "ready", todo |-> <<>>, key |-> NoArg, posted |-> <<>>, removed |-> {},
     exc |-> ""]

ConcurrentInit ==
    /\ Constructed
    /\ script = NoScript
    /\ callers = [c \in Callers |-> ReadyCaller]

\* Before the threads start, the session has reports generated without
\* waiting for them.
CallGenerate ==
    /\ \A c \in Callers : callers[c].pc = "ready"
    /\ Call
    /\ op' \in {"generate_inbox_report", "generate_survey_report"}
    /\ ~arg'.wait

\* for key in list(self.background_tasks): the snapshot, and the first key
\* if there is one.
caller_snapshot(c) ==
    /\ pc = "idle"
    /\ callers[c].pc = "ready"
    /\ \E snapshot \in Orderings(background_tasks) :
        callers' = [callers EXCEPT ![c] =
            IF snapshot = <<>> THEN [@ EXCEPT !.pc = "done"]
            ELSE [@ EXCEPT !.pc = "cancel", !.todo = Tail(snapshot), !.key = Head(snapshot)]]
    /\ UNCHANGED <<login_data, background_tasks, op, pc, arg, report_key, report_status,
                   todo, result, trace, issued, logins, events, script, legacy>>

\* self.delete_background_task(key): the cancel request and the success
\* check of its response.
caller_cancel(c) ==
    /\ callers[c].pc = "cancel"
    /\ \E response \in CancelResponses :
        callers' = [callers EXCEPT ![c] =
            [@ EXCEPT !.posted = Append(@, [key |-> callers[c].key,
                                            success |-> response.success]),
                      !.pc = IF response.success THEN "remove" ELSE "done",
                      !.exc = IF response.success THEN "" ELSE "EchoMobileError"]]
    /\ UNCHANGED <<login_data, background_tasks, op, pc, arg, report_key, report_status,
                   todo, result, trace, issued, logins, events, script, legacy>>

\* Mutant: the key is discarded, which does not fail when it is gone.
RemoveOutcome_discard(tasks, key) == [exc |-> "", tasks |-> tasks \ {key}]

\* self.background_tasks.remove(key): set.remove raises KeyError when the
\* key is not in the set.
RemoveOutcome(tasks, key) ==
    IF key \in tasks THEN [exc |-> "", tasks |-> tasks \ {key}]
    ELSE [exc |-> "KeyError", tasks |-> tasks]

\* The remove, and the step of the loop to the next key of the snapshot.
caller_remove(c) ==
    /\ callers[c].pc = "remove"
    /\ LET r == RemoveOutcome(background_tasks, callers[c].key)
       IN  /\ background_tasks' = r.tasks
           /\ callers' = [callers EXCEPT ![c] =
                 IF r.exc # "" THEN [@ EXCEPT !.pc = "done", !.exc = r.exc]
                 ELSE IF callers[c].todo = <<>>
                 THEN [@ EXCEPT !.pc = "done", !.removed = @ \cup {callers[c].key}]
                 ELSE [@ EXCEPT !.pc = "cancel", !.removed = @ \cup {callers[c].key},
                                !.key = Head(callers[c].todo),
                                !.todo = Tail(callers[c].todo)]]
    /\ UNCHANGED <<login_data, op, pc, arg, report_key, report_status, todo, result,
                   trace, issued, logins, events, script, legacy>>

ConcurrentNext ==
    \/ CallGenerate
    \/ generate_inbox_report
    \/ generate_survey_report
    \/ \E c \in Callers : caller_snapshot(c)
    \/ \E c \in Callers : caller_cancel(c)
    \/ \E c \in Callers : caller_remove(c)

ConcurrentSpec == ConcurrentInit /\ [][ConcurrentNext]_vars

\* Thread c has had a cancel of key k answered with success.
Cancelled(c, k) ==
    \E i \in DOMAIN callers[c].posted :
        callers[c].posted[i] = [key |-> k, success |-> TRUE]

\* C26: nothing keeps two threads that run delete_session_background_tasks
\* on one session apart: a thread whose remove finds the key gone fails with
\* KeyError and leaves the set as it is, and whenever a thread has failed so,
\* both threads have posted a cancel for that key and the other thread has
\* removed it.
C26_SecondRemoveFails ==
    /\ [](\A c \in Callers :
            callers[c].exc = "KeyError" =>
                /\ callers[c].key \notin background_tasks
                /\ Cancelled(c, callers[c].key)
                /\ \E d \in Callers \ {c} :
                      /\ Cancelled(d, callers[c].key)
                      /\ callers[c].key \in callers[d].removed)
    /\ [][\A c \in Callers :
            (callers[c].pc = "remove" /\ callers'[c] # callers[c]
                /\ callers[c].key \notin background_tasks) =>
                /\ callers'[c].exc = "KeyError"
                /\ callers'[c].pc = "done"
                /\ background_tasks' = background_tasks]_vars

\* Both threads have cancelled the same key; the first has returned and the
\* second has failed at its remove.
C26_Witness ==
    /\ callers[1].pc = "done" /\ callers[1].exc = ""
    /\ callers[2].pc = "done" /\ callers[2].exc = "KeyError"
    /\ Cancelled(1, callers[2].key) /\ Cancelled(2, callers[2].key)
    /\ background_tasks = {}
-----------------------------------------------------------------------------
(* The cleanup loop as a whole.                                             *)

\* The keys delete_session_background_tasks has posted a cancel for, in the
\* order of the requests.
CancelKeys == [i \in DOMAIN trace |-> trace[i].params.key]

\* C31: delete_session_background_tasks walks a snapshot that lists every
\* key of background_tasks once; each request of the call is a cancel for
\* the next key of the snapshot, no key is posted twice, and when the call
\* returns every cancel has succeeded, every key of the set has had its one
\* cancel and the set is empty.  Called on an empty set it returns at once
\* with no request and leaves background_tasks and login_data as they were.
C31_OneCancelPerKey ==
    /\ [](op = "delete_session_background_tasks" =>
            /\ \A i \in DOMAIN trace : IsCancel(trace[i])
            /\ \A i, j \in DOMAIN trace : i # j => CancelKeys[i] # CancelKeys[j]
            /\ Returned =>
                  /\ \A i \in DOMAIN trace : trace[i].response.success
                  /\ todo = <<>>
                  /\ background_tasks = {})
    /\ [][/\ (pc = "idle" /\ op' = "delete_session_background_tasks") =>
                /\ trace' = <<>>
                /\ Range(todo') = background_tasks
                /\ Len(todo') = Cardinality(background_tasks)
                /\ UNCHANGED <<background_tasks, login_data>>
                /\ background_tasks = {} => (pc' = "idle" /\ result'.exc = "")
                /\ background_tasks # {} => pc' = "delete_background_task"
          /\ (pc = "delete_background_task" /\ op = "delete_session_background_tasks") =>
                /\ Last(trace').params.key = Head(todo)
                /\ Len(trace') = Len(trace) + 1
                /\ Last(trace').response.success =>
                      /\ todo' = Tail(todo)
                      /\ background_tasks' = background_tasks \ {Head(todo)}
                      /\ pc' = "idle" <=> Tail(todo) = <<>>]_vars

C31_Witness ==
    /\ op = "delete_session_background_tasks"
    /\ Returned
    /\ Len(trace) = 3
    /\ background_tasks = {}

\* C32: delete_session_background_tasks stops at the first cancel the server
\* reports as failed: the step that reads the failure ends the call with
\* EchoMobileError, and in the state it leaves the failed cancel is the last
\* request, every earlier cancel succeeded, and the key that failed and the
\* keys after it in the snapshot are still in background_tasks, the latter
\* with no cancel request issued for them.
C32_StopsAtFirstFailure ==
    /\ [][(pc = "delete_background_task" /\ op = "delete_session_background_tasks"
              /\ ~Last(trace').response.success) =>
                /\ pc' = "idle"
                /\ result' = [exc |-> "EchoMobileError", val |-> Last(trace').response.message]
                /\ UNCHANGED <<todo, background_tasks>>]_vars
    /\ [](op = "delete_session_background_tasks" =>
            /\ \A i \in DOMAIN trace :
                  ~trace[i].response.success => (i = Len(trace) /\ Raised)
            /\ (Raised /\ result.exc = "EchoMobileError") =>
                  /\ ~Last(trace).response.success
                  /\ Last(trace).params.key = Head(todo)
                  /\ Range(todo) \subseteq background_tasks
                  /\ \A k \in Range(Tail(todo)) : k \notin Range(CancelKeys))

C32_Witness ==
    /\ op = "delete_session_background_tasks"
    /\ Raised
    /\ result.exc = "EchoMobileError"
    /\ Len(trace) = 2
    /\ trace[1].response.success
    /\ ~trace[2].response.success
    /\ Len(todo) = 2
    /\ todo[2] \in background_tasks
    /\ todo[2] \notin Range(CancelKeys)
-----------------------------------------------------------------------------
(* The scripts after the try statement: inbox_report.py, messages_report.py *)
(* and survey_report.py convert the dates of the rows of the report with    *)
(* session.echo_mobile_date_to_iso, and the first two then fingerprint each *)
(* message with EchoMobileSession.normalise_message.                        *)

\* The report is kept as its header; the rows that csv.DictReader yields
\* from it are chosen as the loops reach them, at most MaxRows of them, and
\* script.rows holds the rows reached so far: the converted date fields of
\* a row that is fingerprinted later, and nothing of a row of
\* survey_report.py, which is only written out.

\* The next call of session.echo_mobile_date_to_iso in the conversion loop:
\* Date and upload_date of each row in inbox_report.py, Date in
\* messages_report.py, and invite_date, start_date and a complete_date
\* that is not empty in survey_report.py.  The loop is reached when the
\* try statement has ended without an exception and goes on while no
\* conversion has raised.
script_date_to_iso ==
    /\ pc = "idle"
    /\ script.name \in {"inbox_report.py", "messages_report.py", "survey_report.py"}
    /\ \/ script.at = "exit" /\ script.exit = ""
       \/ script.at = "iso" /\ result.exc = ""
    /\ LET fields == CASE script.name = "inbox_report.py" -> <<"Date", "upload_date">>
                       [] script.name = "messages_report.py" -> <<"Date">>
                       [] script.name = "survey_report.py" ->
                             <<"invite_date", "start_date", "complete_date">>
           last == script.field
           row_over == \/ last \in {NoArg, fields[Len(fields)]}
                       \/ script.name = "survey_report.py" /\ last = "start_date"
           nexts == (IF row_over /\ Len(script.rows) < MaxRows THEN {fields[1]} ELSE {})
                    \cup {fields[i + 1] : i \in {k \in 1..(Len(fields) - 1) : fields[k] = last}}
       IN  \E field \in nexts :
           \E date \in {"2018-07-01 08:40", "2018-06-02 04:20", "2018-06-01 19:20 EAT",
                         "2018-12-31 23:59", "2018-02-30 10:00"} :
              LET r == DateToIso(login_data, date, NoArg)
                  rows == script.rows
              IN  /\ op' = "echo_mobile_date_to_iso"
                  /\ arg' = [date |-> date, timezone |-> NoArg]
                  /\ result' = r
                  /\ script' =
                        [script EXCEPT
                           !.at = "iso",
                           !.field = field,
                           !.rows = IF r.exc # "" THEN rows
                                    ELSE IF script.name = "survey_report.py"
                                    THEN (IF field = fields[1] THEN Append(rows, <<>>)
                                          ELSE rows)
                                    ELSE IF field = fields[1] THEN Append(rows, field :> r.val)
                                    ELSE [rows EXCEPT ![Len(rows)] =
                                              rows[Len(rows)] @@ (field :> r.val)]]
    /\ trace' = <<>>
    /\ UNCHANGED <<login_data, background_tasks, pc, report_key, report_status,
                   todo, issued, logins, events, callers, legacy>>

\* The next call of
\* EchoMobileSession.normalise_message(td, "avf_phone_id", "Date", "Message")
\* in the fingerprint loop, which follows the conversion of every row and
\* visits the rows in order; messages_report.py first drops the rows whose
\* Date is outside echo_mobile_start_date <= ... < echo_mobile_end_date.
\* script.next is the place of the row in the list that is left, and
\* script.localzone the zone the machine is set to.
script_normalise_message ==
    /\ pc = "idle"
    /\ script.name \in {"inbox_report.py", "messages_report.py"}
    /\ result.exc = ""
    /\ \/ /\ script.at = "iso"
          /\ script.field = IF script.name = "inbox_report.py" THEN "upload_date" ELSE "Date"
       \/ script.at = "normalise"
    /\ LET echo_mobile_start_date == DateToEchoMobileTimezone(login_data, user_start_date).val
           echo_mobile_end_date == DateToEchoMobileTimezone(login_data, user_end_date).val
           InRange(row) ==
               /\ timestamp(echo_mobile_start_date) <= timestamp(isoparse(row["Date"]).val)
               /\ timestamp(isoparse(row["Date"]).val) < timestamp(echo_mobile_end_date)
           messages == IF script.name = "messages_report.py"
                       THEN SelectSeq(script.rows, InRange)
                       ELSE script.rows
       IN  /\ script.next <= Len(messages)
           /\ \E localzone \in LocalZones :
                LET td == messages[script.next]
                          @@ ("avf_phone_id" :> "avf-phone-id-0a1b" @@ "Message" :> "Hello!")
                IN  /\ script.localzone \in {NoArg, localzone}
                    /\ op' = "normalise_message"
                    /\ arg' = [d |-> td, sender_key |-> "avf_phone_id", date_key |-> "Date",
                               message_key |-> "Message", localzone |-> localzone]
                    /\ result' = NormaliseMessage(td, "avf_phone_id", "Date", "Message",
                                                  localzone)
                    /\ script' = [script EXCEPT !.at = "normalise",
                                                !.next = script.next + 1,
                                                !.localzone = localzone]
    /\ trace' = <<>>
    /\ UNCHANGED <<login_data, background_tasks, pc, report_key, report_status,
                   todo, issued, logins, events, callers, legacy>>

RowsNext ==
    \/ ScriptNext
    \/ script_date_to_iso
    \/ script_normalise_message

RowsSpec == ScriptInit /\ [][RowsNext]_vars

\* C33: login_data changes only in the step of login that reads a
\* successful response, and then to that response; background_tasks changes
\* only in a generation step that reads a successful response, by gaining
\* that report's task id, and in a cancel step of
\* delete_session_background_tasks, by losing the cancelled key.  Every other
\* step (listing, name resolution, account switching, polling, download,
\* the timestamp helpers) leaves both as they were, and so a date converted
\* after the cleanup of a script is still given the offset of the login
\* timezone.
C33_Frame ==
    /\ [][login_data' # login_data =>
            /\ pc = "login"
            /\ Last(trace').response.success
            /\ login_data' = Last(trace').response]_vars
    /\ [][background_tasks' # background_tasks =>
            \/ /\ pc \in GenerateOps
               /\ Last(trace').response.success
               /\ background_tasks' =
                      background_tasks \cup {TaskId(Last(trace').response.rkey)}
            \/ /\ pc = "delete_background_task"
               /\ op = "delete_session_background_tasks"
               /\ Last(trace').response.success
               /\ background_tasks' = background_tasks \ {Last(trace').params.key}]_vars
    /\ [][op' \in {"echo_mobile_date_to_iso", "normalise_message"} =>
            UNCHANGED <<login_data, background_tasks>>]_vars
    /\ []((script.at = "iso" /\ arg.date \in DOMAIN WallClockIso) =>
            /\ login_data # None
            /\ result = [exc |-> "",
                         val |-> WallClockIso[arg.date]
                                     \o OffsetText(login_data.tz, arg.date)])

C33_Witness ==
    /\ script.at = "iso"
    /\ script.outstanding # {}
    /\ background_tasks = {}
    /\ login_data # None /\ login_data.tz = "Africa/Nairobi"
    /\ arg.date = "2018-07-01 08:40"
    /\ result.val = "2018-07-01T08:40:00+03:00"
-----------------------------------------------------------------------------
(* The fingerprint of a message, stated over DateSpec.                     *)

\* Four ways of writing the instant 2018-06-02 07:33:00 UTC, and the Date
\* that a machine set to each zone gives it, written out by hand.
SameInstant == {"2018-06-02T10:33:00+03:00", "2018-06-02T07:33:00Z",
                "2018-06-02T07:33:00+00:00", "2018-06-01T23:33:00-08:00"}
FingerprintDate == "UTC" :> 1527924780 @@ "Africa/Nairobi" :> 1527913980

\* C34: on one machine normalise_message gives the same Date, and so the
\* same record for the same sender and message, for every ISO-8601 string
\* that denotes the same instant, whatever the UTC offset it is written
\* with.
C34_OffsetIndependent ==
    (op = "normalise_message" /\ arg.date_key \in DOMAIN arg.d
        /\ arg.sender_key \in DOMAIN arg.d /\ arg.message_key \in DOMAIN arg.d) =>
        (arg.d[arg.date_key] \in SameInstant =>
            result = [exc |-> "",
                      val |-> [Sender |-> arg.d[arg.sender_key],
                               Date |-> FingerprintDate[arg.localzone],
                               Message |-> arg.d[arg.message_key]]])

C34_Witness ==
    /\ op = "normalise_message"
    /\ arg.localzone = "Africa/Nairobi"
    /\ arg.date_key \in DOMAIN arg.d
    /\ arg.d[arg.date_key] = "2018-06-01T23:33:00-08:00"
    /\ result.exc = ""
    /\ result.val.Date = 1527913980
-----------------------------------------------------------------------------
(* The standalone scripts fetch_report.py and fetch_messages.py, which     *)
(* talk to the server through a requests.Session of their own and never    *)
(* look at the success flag of a response.  A step is one request and the  *)
(* statements up to the next request or to the end of the script; arg      *)
(* holds the key found so far, report_key the rkey, script.pending the     *)
(* exception that has left the try block and script.exit the one the       *)
(* script ends with.                                                       *)

FetchInit ==
    /\ Constructed
    /\ \E n \in {"fetch_report.py", "fetch_messages.py"} : \E a \in Names : \E t \in Names :
        script = [name |-> n, account |-> a,
                  target |-> IF n = "fetch_report.py" THEN t ELSE NoArg,
                  at |-> "login", pending |-> "", surveys |-> <<>>,
                  outstanding |-> {}, exit |-> ""]
    /\ callers = <<>>

\* Mutant: no finally clause; the cancel is the last statement of the
\* block and an exception ends the script before it.
FetchFinally_at_end_only(exc) ==
    script' = [script EXCEPT !.at = IF exc = "" THEN "finally" ELSE "exit",
                             !.pending = exc, !.exit = exc]

\* The try block is left for the finally clause, with exception exc, or
\* none, pending.
FetchFinally(exc) == script' = [script EXCEPT !.at = "finally", !.pending = exc]

\* session.post(... "authenticate/simple" ...): the response is not read.
fetch_login ==
    /\ script.at = "login"
    /\ \E response \in LoginResponses :
        Sent("POST authenticate/simple", [populate_session |-> 1], response)
    /\ script' = [script EXCEPT !.at = "accounts"]
    /\ UNCHANGED <<login_data, background_tasks, op, pc, arg, report_key, report_status,
                   todo, result, issued, logins, events, callers, legacy>>

\* The listing of the accounts and the choice of the first one whose
\* ent_name is the account name; exit(1) when there is none.
fetch_accounts ==
    /\ script.at = "accounts"
    /\ \E response \in AccountsResponses :
        /\ Sent("GET cms/account/me", [with_linked |-> 1], response)
        /\ IF "linked" \notin DOMAIN response
           THEN script' = [script EXCEPT !.at = "exit", !.exit = "KeyError"] /\ UNCHANGED arg
           ELSE LET matching_accounts == SelectSeqBy(response.linked, "ent_name", script.account)
                IN  IF Len(matching_accounts) = 0
                    THEN script' = [script EXCEPT !.at = "exit", !.exit = "SystemExit"] /\ UNCHANGED arg
                    ELSE /\ script' = [script EXCEPT !.at = "linked"]
                         /\ arg' = [arg EXCEPT !.key = matching_accounts[1].key]
    /\ UNCHANGED <<login_data, background_tasks, op, pc, report_key, report_status,
                   todo, result, issued, logins, events, callers, legacy>>

\* session.post(... "authenticate/linked" ...): the response is not read.
fetch_linked ==
    /\ script.at = "linked"
    /\ \E response \in LinkedResponses :
        Sent("POST authenticate/linked", [acckey |-> arg.key], response)
    /\ script' = [script EXCEPT !.at = IF script.name = "fetch_report.py" THEN "surveys" ELSE "generate"]
    /\ UNCHANGED <<login_data, background_tasks, op, pc, arg, report_key, report_status,
                   todo, result, issued, logins, events, callers, legacy>>

\* fetch_report.py: the listing of the surveys and the choice of the one
\* with the survey name.  exit(1) when there is none; when there is more
\* than one, the key, n_questions, invite_message and thanks_message of
\* every match are printed before exit(1), so that a match without one of
\* them ends the script with KeyError.  The listings are those of
\* SurveysResponses, whose entries carry a name and a key, and one listing
\* of two surveys of the same name that carry every printed field.
fetch_surveys ==
    /\ script.at = "surveys"
    /\ LET described(e) == e @@ [n_questions |-> 2, invite_message |-> "Hi",
                                 thanks_message |-> "Thanks"]
           listings == SurveysResponses \cup
                       {[success |-> TRUE,
                         surveys |-> <<described([name |-> "A", key |-> "k1"]),
                                       described([name |-> "A", key |-> "k2"])>>]}
       IN  \E response \in listings :
        /\ Sent("GET cms/survey", None, response)
        /\ IF "surveys" \notin DOMAIN response
           THEN script' = [script EXCEPT !.at = "exit", !.exit = "KeyError"] /\ UNCHANGED arg
           ELSE LET matching_surveys == SelectSeqBy(response.surveys, "name", script.target)
                    printed == {"key", "n_questions", "invite_message", "thanks_message"}
                IN  IF Len(matching_surveys) = 0
                    THEN script' = [script EXCEPT !.at = "exit", !.exit = "SystemExit"] /\ UNCHANGED arg
                    ELSE IF Len(matching_surveys) > 1
                    THEN /\ script' =
                              [script EXCEPT
                                 !.at = "exit",
                                 !.exit = IF \A i \in DOMAIN matching_surveys :
                                                printed \subseteq DOMAIN matching_surveys[i]
                                          THEN "SystemExit" ELSE "KeyError"]
                         /\ UNCHANGED arg
                    ELSE /\ script' = [script EXCEPT !.at = "generate"]
                         /\ arg' = [arg EXCEPT !.key = matching_surveys[1].key]
    /\ UNCHANGED <<login_data, background_tasks, op, pc, report_key, report_status,
                   todo, result, issued, logins, events, callers, legacy>>

\* The generation request, type 13 for the survey in fetch_report.py and
\* type 11 in fetch_messages.py, and rkey = ....json()["rkey"].
fetch_generate ==
    /\ script.at = "generate"
    /\ \E response \in GenerateResponses :
        /\ IF script.name = "fetch_report.py"
           THEN Sent("POST cms/report/generate",
                     [type |-> SurveyReport, target |-> arg.key], response)
           ELSE Sent("POST cms/report/generate",
                     [type |-> SearchReport, ftype |-> CSV], response)
        /\ IF "rkey" \notin DOMAIN response
           THEN script' = [script EXCEPT !.at = "exit", !.exit = "KeyError"] /\ UNCHANGED <<report_key, issued>>
           ELSE /\ script' = [script EXCEPT !.at = "poll"]
                /\ report_key' = response.rkey
                /\ issued' = issued + 1
    /\ UNCHANGED <<login_data, background_tasks, op, pc, arg, report_status,
                   todo, result, logins, events, callers, legacy>>

\* One iteration of the polling loop, the GET and then time.sleep(2), and
\* the assertion after the loop when the iteration is the last one.
fetch_poll ==
    /\ script.at = "poll"
    /\ \E response \in BackgroundTaskResponses :
        /\ Sent("GET cms/backgroundtask", None, response)
        /\ IF "tasks" \notin DOMAIN response
              \/ TaskId(report_key) \notin DOMAIN response.tasks
           THEN /\ FetchFinally("KeyError")
                /\ events' = events \o <<"poll">>
                /\ UNCHANGED report_status
           ELSE LET status == response.tasks[TaskId(report_key)].status
                IN  /\ events' = events \o <<"poll", "sleep">>
                    /\ report_status' = status
                    /\ IF status = Generating THEN script' = [script EXCEPT !.at = "poll"]
                       ELSE IF status = Complete THEN script' = [script EXCEPT !.at = "download"]
                       ELSE FetchFinally("AssertionError")
    /\ UNCHANGED <<login_data, background_tasks, op, pc, arg, report_key,
                   todo, result, issued, logins, callers, legacy>>

\* The download, and the parsing and writing of the report, which succeed
\* or raise.
fetch_download ==
    /\ script.at = "download"
    /\ \E response \in ServeBodies :
        Sent("GET cms/report/serve", [rkey |-> report_key], response)
    /\ \E exc \in {"", "IOError"} : FetchFinally(exc)
    /\ UNCHANGED <<login_data, background_tasks, op, pc, arg, report_key, report_status,
                   todo, result, issued, logins, events, callers, legacy>>

\* The finally clause: the cancel of "report_" + rkey, whose response is
\* not read; the pending exception goes on.
fetch_cancel ==
    /\ script.at = "finally"
    /\ \E response \in CancelResponses :
        Sent("POST cms/backgroundtask/cancel", [key |-> TaskId(report_key)], response)
    /\ script' = [script EXCEPT !.at = "exit", !.exit = script.pending]
    /\ UNCHANGED <<login_data, background_tasks, op, pc, arg, report_key, report_status,
                   todo, result, issued, logins, events, callers, legacy>>

FetchNext ==
    \/ fetch_login
    \/ fetch_accounts
    \/ fetch_linked
    \/ fetch_surveys
    \/ fetch_generate
    \/ fetch_poll
    \/ fetch_download
    \/ fetch_cancel

FetchSpec == FetchInit /\ [][FetchNext]_vars

\* The requests of the script that cancel the task of its report.
FetchCancels == {i \in DOMAIN trace : IsCancel(trace[i])}
FetchDownloads == {i \in DOMAIN trace : IsDownload(trace[i])}

\* C35: in fetch_report.py and fetch_messages.py the poll/download/write
\* block is left only into the finally clause, which posts the cancel for
\* "report_" + rkey; no cancel is posted before, and a script that has
\* ended after it obtained a report key has posted that cancel exactly once,
\* as its last request, whether the download succeeded, the status
\* assertion failed or another error was raised.  A download request comes
\* only after a poll that read status 3 for the report, and never when the
\* assertion has failed on another status.
C35_CancelOnEveryExit ==
    /\ [][(script.at \in {"poll", "download"} /\ script'.at \notin {"poll", "download"}) =>
            script'.at = "finally"]_vars
    /\ [][script.at = "finally" =>
            /\ script'.at = "exit"
            /\ script'.exit = script.pending
            /\ IsCancel(Last(trace'))
            /\ Last(trace').params.key = TaskId(report_key)]_vars
    /\ [](/\ script.at \in {"poll", "download", "finally"} =>
                (report_key # NoArg /\ FetchCancels = {})
          /\ (script.at = "exit" /\ report_key # NoArg) =>
                /\ FetchCancels = {Len(trace)}
                /\ trace[Len(trace)].params.key = TaskId(report_key)
          /\ \A i \in FetchDownloads :
                /\ trace[i].params.rkey = report_key
                /\ Observed(trace[i - 1], report_key)
                /\ ObservedStatus(trace[i - 1], report_key) = Complete
          /\ script.pending = "AssertionError" =>
                /\ FetchDownloads = {}
                /\ report_status \notin {Generating, Complete})

C35_Witness ==
    /\ script.name = "fetch_messages.py"
    /\ script.at = "exit"
    /\ script.pending = "AssertionError" /\ script.exit = "AssertionError"
    /\ FetchCancels = {Len(trace)}
    /\ FetchDownloads = {}
    /\ ObservedStatus(trace[Len(trace) - 1], report_key) = 2
-----------------------------------------------------------------------------
(* The older module src/echo_mobile_session.py, run side by side with the  *)
(* package class: a second session, legacy, is given the same calls and    *)
(* the same responses of the server.  Each of its methods is a function    *)
(* from its state and the response it reads to its next state.             *)

LegacySent(s, req, params, response) ==
    [s EXCEPT !.trace = Append(@, [req |-> req, params |-> params, response |-> response])]
LegacyFinish(s, exc, val) == [s EXCEPT !.pc = "idle", !.result = [exc |-> exc, val |-> val]]

legacy_login(s, o, response) ==
    LET t == LegacySent(s, "POST authenticate/simple", [populate_session |-> 1], response)
    IN  IF ~response.success THEN LegacyFinish(t, "EchoMobileError", response.message)
        ELSE LegacyFinish(t, "", NoArg)

legacy_accounts(s, o, response) ==
    LET t == LegacySent(s, "GET cms/account/me", [with_linked |-> 1], response)
    IN  IF ~response.success THEN LegacyFinish(t, "EchoMobileError", response.message)
        ELSE IF o = "accounts" THEN LegacyFinish(t, "", response.linked)
        ELSE LET r == account_key_for_name(response.linked, s.arg.name)
             IN  IF r.exc # "" \/ o = "account_key_for_name"
                 THEN LegacyFinish(t, r.exc, r.val)
                 ELSE [t EXCEPT !.pc = "use_account_with_key", !.arg.key = r.val]

legacy_use_account_with_key(s, o, response) ==
    LET t == LegacySent(s, "POST authenticate/linked", [acckey |-> s.arg.key], response)
    IN  IF ~response.success THEN LegacyFinish(t, "EchoMobileError", response.message)
        ELSE LegacyFinish(t, "", NoArg)

legacy_groups(s, o, response) ==
    LET t == LegacySent(s, "GET cms/group", None, response)
    IN  IF ~response.success THEN LegacyFinish(t, "EchoMobileError", response.message)
        ELSE IF o = "groups" THEN LegacyFinish(t, "", response.groups)
        ELSE LET r == group_key_for_name(response.groups, s.arg.name)
             IN  IF r.exc # "" \/ o = "group_key_for_name"
                 THEN LegacyFinish(t, r.exc, r.val)
                 ELSE [t EXCEPT !.pc = "generate_inbox_report", !.arg.key = r.val]

legacy_surveys(s, o, response) ==
    LET t == LegacySent(s, "GET cms/survey", None, response)
    IN  IF ~response.success THEN LegacyFinish(t, "EchoMobileError", response.message)
        ELSE IF o = "surveys" THEN LegacyFinish(t, "", response.surveys)
        ELSE LET r == survey_key_for_name(response.surveys, s.arg.name)
             IN  IF r.exc # "" \/ o = "survey_key_for_name"
                 THEN LegacyFinish(t, r.exc, r.val)
                 ELSE [t EXCEPT !.pc = "generate_survey_report", !.arg.key = r.val]

\* Mutant: the older module registers the report key without its prefix.
legacy_add_background_task_bare(tasks, rkey) == tasks \cup {rkey}

\* self.background_tasks.add("report_" + report_key) of the older module
legacy_add_background_task(tasks, rkey) == tasks \cup {"report_" \o rkey}

\* What follows a successful generation response in generate_survey_report
\* and generate_inbox_report of the older module.
legacy_generated(s, o, rkey) ==
    LET t == [s EXCEPT !.report_key = rkey,
                       !.background_tasks = legacy_add_background_task(@, rkey)]
    IN  IF s.arg.wait THEN [t EXCEPT !.pc = "await_report_generated"]
        ELSE IF o \in CompositeOps THEN [t EXCEPT !.pc = "download_report"]
        ELSE LegacyFinish(t, "", rkey)

legacy_generate_survey_report(s, o, response) ==
    LET t == LegacySent(s, "POST cms/report/generate",
                        [type |-> 13, ftype |-> 1, target |-> s.arg.key], response)
    IN  IF ~response.success THEN LegacyFinish(t, "EchoMobileError", response.message)
        ELSE legacy_generated(t, o, response.rkey)

legacy_generate_inbox_report(s, o, response) ==
    LET t == IF s.arg.key = NoArg
             THEN LegacySent(s, "POST cms/report/generate",
                             [type |-> 11, ftype |-> 1], response)
             ELSE LegacySent(s, "POST cms/report/generate",
                             [type |-> 10, ftype |-> 1, target |-> s.arg.key], response)
    IN  IF ~response.success THEN LegacyFinish(t, "EchoMobileError", response.message)
        ELSE legacy_generated(t, o, response.rkey)

\* One iteration of the polling loop of the older module, and the code
\* after the loop when the iteration is the last one.
legacy_await_report_generated(s, o, response) ==
    LET t == LegacySent(s, "GET cms/backgroundtask", None, response)
        task == "report_" \o s.report_key
    IN  IF ~response.success THEN LegacyFinish(t, "EchoMobileError", response.message)
        ELSE IF task \notin DOMAIN response.tasks THEN LegacyFinish(t, "KeyError", task)
        ELSE LET status == response.tasks[task].status
                 u == [t EXCEPT !.report_status = status]
             IN  IF status = 1 THEN [u EXCEPT !.pc = "await_report_generated"]
                 ELSE IF status # 3
                 THEN LegacyFinish(u, "AssertionError",
                                   "Report stopped generating, but with an unknown status")
                 ELSE IF o \in CompositeOps THEN [u EXCEPT !.pc = "download_report"]
                 ELSE IF o \in GenerateOps THEN LegacyFinish(u, "", s.report_key)
                 ELSE LegacyFinish(u, "", NoArg)

legacy_download_report(s, o, response) ==
    LegacyFinish(LegacySent(s, "GET cms/report/serve", [rkey |-> s.report_key], response),
                 "", response)

\* delete_background_task of the older module, called directly or from the
\* loop of its delete_session_background_tasks.
legacy_delete_background_task(s, o, response) ==
    LET task_key == IF o = "delete_session_background_tasks" THEN Head(s.todo) ELSE s.arg.key
        t == LegacySent(s, "POST cms/backgroundtask/cancel", [key |-> task_key], response)
    IN  IF ~response.success THEN LegacyFinish(t, "EchoMobileError", response.message)
        ELSE IF o = "delete_background_task" THEN LegacyFinish(t, "", NoArg)
        ELSE IF task_key \notin s.background_tasks THEN LegacyFinish(t, "KeyError", task_key)
        ELSE LET u == [t EXCEPT !.background_tasks = @ \ {task_key}, !.todo = Tail(@)]
             IN  IF u.todo = <<>> THEN LegacyFinish(u, "", NoArg)
                 ELSE [u EXCEPT !.pc = "delete_background_task"]

\* The caller invokes the same method, with the same arguments, of both
\* sessions; snapshot is list(self.background_tasks) in
\* delete_session_background_tasks of the older one, where equal sets are
\* listed in the same order, and no other method takes one.
pair_call ==
    /\ pc = "idle" /\ legacy.pc = "idle"
    /\ Len(legacy.trace) = Len(trace)
    /\ \E o \in Ops \ {"generate_messages_report", "messages_report"} : \E a \in Args(o) :
        /\ Invoke(o, a)
        /\ \E snapshot \in (IF o = "delete_session_background_tasks"
                            THEN Orderings(legacy.background_tasks) ELSE {<<>>}) :
            /\ (o = "delete_session_background_tasks"
                    /\ legacy.background_tasks = background_tasks) => snapshot = todo'
            /\ LET empty == o = "delete_session_background_tasks" /\ snapshot = <<>>
               IN  legacy' =
                     [legacy EXCEPT
                        !.arg = a,
                        !.trace = <<>>,
                        !.report_key =
                            IF o \in {"await_report_generated", "download_report"}
                            THEN a.key ELSE NoArg,
                        !.report_status = Generating,
                        !.todo = snapshot,
                        !.pc = IF empty THEN "idle" ELSE Entry(o, a),
                        !.result = IF empty THEN [exc |-> "", val |-> NoArg]
                                   ELSE NoResult]
    /\ UNCHANGED <<login_data, background_tasks, issued, logins, script, callers>>

\* The method of the older session that is waiting for a response issues
\* its request and is given the response that the newer session was given
\* to its request at the same place.
legacy_follow ==
    /\ legacy.pc # "idle"
    /\ Len(legacy.trace) < Len(trace)
    /\ LET s == legacy
           o == op
           response == trace[Len(legacy.trace) + 1].response
       IN  legacy' =
             CASE s.pc = "login" -> legacy_login(s, o, response)
               [] s.pc = "accounts" -> legacy_accounts(s, o, response)
               [] s.pc = "use_account_with_key" -> legacy_use_account_with_key(s, o, response)
               [] s.pc = "groups" -> legacy_groups(s, o, response)
               [] s.pc = "surveys" -> legacy_surveys(s, o, response)
               [] s.pc = "generate_survey_report" ->
                     legacy_generate_survey_report(s, o, response)
               [] s.pc = "generate_inbox_report" ->
                     legacy_generate_inbox_report(s, o, response)
               [] s.pc = "await_report_generated" ->
                     legacy_await_report_generated(s, o, response)
               [] s.pc = "download_report" -> legacy_download_report(s, o, response)
               [] s.pc = "delete_background_task" ->
                     legacy_delete_background_task(s, o, response)
    /\ UNCHANGED <<login_data, background_tasks, op, pc, arg, report_key, report_status,
                   todo, result, trace, issued, logins, events, script, callers>>

PairNext ==
    \/ pair_call
    \/ legacy_follow
    \/ login
    \/ accounts
    \/ use_account_with_key
    \/ groups
    \/ surveys
    \/ generate_inbox_report
    \/ generate_survey_report
    \/ await_report_generated
    \/ download_report
    \/ delete_background_task

PairSpec == Init /\ [][PairNext]_vars

\* C36: given the same calls of login, listing, name resolution, account
\* switching, survey and inbox report generation, polling, download and task
\* deletion, and the same responses, the older module has issued the same
\* requests in the same order as the newer one up to the place it has
\* reached, and once it has caught up it is at the same place of the same
\* method, has raised or returned the same, and holds the same
\* background_tasks; it has no login_data, while the newer one holds the
\* response of its latest successful login.
C36_SameBehaviour ==
    /\ Len(legacy.trace) <= Len(trace)
    /\ legacy.trace = SubSeq(trace, 1, Len(legacy.trace))
    /\ Len(legacy.trace) = Len(trace) =>
          /\ legacy.background_tasks = background_tasks
          /\ legacy.pc = pc
          /\ legacy.result.exc = result.exc
          /\ legacy.result = result
          /\ legacy.todo = todo
    /\ "login_data" \notin DOMAIN legacy
    /\ login_data = (IF logins = <<>> THEN None ELSE Last(logins))

C36_Witness ==
    /\ op = "survey_report_for_name"
    /\ Returned
    /\ legacy.pc = "idle" /\ legacy.result.exc = ""
    /\ Len(legacy.trace) = 4
    /\ IsDownload(legacy.trace[4])
    /\ legacy.background_tasks # {}
    /\ login_data # None

====
